---- MODULE Spec2Model ----
(***************************************************************************)
(* A model of lppc (bebold-jhr/lppc): the mapping-repository cache         *)
(* (lppc-cli/src/mapping), the module provider context and the provider    *)
(* grouping of the HCL parser (lppc-cli/src/terraform).                    *)
(*                                                                         *)
(* Strings the code inspects character by character (provider aliases,     *)
(* output names) are sequences of one-character strings.  Strings the code *)
(* only compares or uses as keys (role ARNs, URLs' parts) stay atoms.      *)
(***************************************************************************)
EXTENDS Integers, Sequences, FiniteSets, TLC

VARIABLES
    \* ---- the mapping cache on disk (~/.lppc) and the system clock
    now,        \* SystemTime::now(), in hours
    repoDir,    \* repo path -> "absent" | "nogit" | "repo"   (~/.lppc/<user>/<repo>)
    tsFile,     \* timestamp path -> NoFile | mtime            (~/.lppc/.last_update_<hash>)
    call,       \* what the last ensure_available call saw and did
    \* ---- concurrent invocations of ensure_available (one per process)
    pc, plocal,
    \* ---- HclParser::parse_directory: what has been parsed so far and its result
    providers,        \* Vec<ParsedProvider> collected from the root module
    blocks,           \* Vec<TerraformBlock> collected from all modules
    modStack,         \* ModuleContext of each module on the recursion path, root first
    phase,            \* "parsing" | "grouped"
    provider_groups,  \* TerraformConfig.provider_groups: output name -> ProviderGroup
    unmapped_blocks,  \* TerraformConfig.unmapped_blocks
    \* ---- MappingLoader and PermissionMatcher
    mappingFiles,     \* <repo>/mappings/<provider>/<kind>/<type>.yaml -> content
    loaderCache,      \* MappingLoader.cache: cache key -> Option<ActionMapping>
    loadCall,         \* what the last MappingLoader::load call was given and did
    permResult,       \* what the last PermissionMatcher::resolve call was given and returned
    \* ---- OutputWriter
    outCall,          \* what the last OutputWriter::write call was given, printed and wrote
    \* ---- PlanExecutor::execute, main and the parser's walk over the modules
    fsys,             \* the file system: the set of its entries (path, kind)
    execCall,         \* the call of PlanExecutor::execute: its position and what it planned
    mainCall,         \* what the last run of main was given and how it ended
    walk              \* extract_blocks_recursive: the manifest and the frames on the stack

cacheVars == <<now, repoDir, tsFile, call>>
procVars == <<pc, plocal>>
parseVars == <<providers, blocks, modStack, phase, provider_groups, unmapped_blocks>>
matchVars == <<mappingFiles, loaderCache, loadCall, permResult>>
outVars == <<outCall>>
runVars == <<fsys, execCall, mainCall, walk>>
vars == <<now, repoDir, tsFile, call, pc, plocal,
          providers, blocks, modStack, phase, provider_groups, unmapped_blocks,
          mappingFiles, loaderCache, loadCall, permResult, outCall,
          fsys, execCall, mainCall, walk>>

(***************************************************************************)
(* Bounds of the model.                                                    *)
(***************************************************************************)
\* The clock advances (or is set back) in steps of TickHours, up to MaxTime.
TickHours == 12
MaxTime == 36
\* Number of concurrently running lppc processes in SpecConc, and how far the
\* clock advances while they run.
NumProcs == 3
ConcMaxTime == 12

(***************************************************************************)
(* mapping/cache.rs                                                        *)
(***************************************************************************)
CACHE_EXPIRY_HOURS == 24

NoFile == -1

\* Accepted URLs of one repository, in the forms parse_repo_path supports.
Urls ==
    { [scheme |-> "https://", host |-> "github.com", user |-> "u", repo |-> "r", suffix |-> ""],
      [scheme |-> "git@",     host |-> "github.com", user |-> "u", repo |-> "r", suffix |-> ".git"] }

\* parse_repo_path: "<user>/<repo>" with a trailing ".git" trimmed, whatever
\* the scheme and host.
parse_repo_path(url) == <<url.user, url.repo>>

\* get_repo_path: base_dir joined with the parsed path.
get_repo_path(url) == <<".lppc">> \o parse_repo_path(url)

\* Variant: the digest is taken of the parsed <user>/<repo> only.
hash_url_of_repo_path(url) == <<url.user, url.repo>>

\* hash_url: the first 4 bytes of the SHA-256 of the URL's bytes.  The digest
\* is a function of every byte of the URL text; it is modelled by the text.
hash_url(url) == <<url.scheme, url.host, url.user, url.repo, url.suffix>>

\* timestamp_file_path: base_dir/.last_update_<hash>.
timestamp_file_path(url) == <<".lppc", ".last_update_", hash_url(url)>>

RepoPaths == { get_repo_path(u) : u \in Urls }
TsPaths == { timestamp_file_path(u) : u \in Urls }

\* is_cached: path.exists() && path.join(".git").exists().
is_cached(dirs, url) == dirs[get_repo_path(url)] = "repo"

\* needs_refresh: no timestamp file, or its mtime is more than 24 hours old;
\* duration_since fails when the mtime is later than now, and unwrap_or(true)
\* then reports the cache as expired.
needs_refresh(ts, t, url) ==
    LET modified == ts[timestamp_file_path(url)] IN
    IF modified = NoFile THEN TRUE
    ELSE IF t >= modified THEN (t - modified) > CACHE_EXPIRY_HOURS
    ELSE TRUE

\* update_timestamp: fs::write of the timestamp file, whose mtime becomes now.
update_timestamp(ts, t, url) == [ts EXCEPT ![timestamp_file_path(url)] = t]

(***************************************************************************)
(* mapping/repository.rs                                                   *)
(***************************************************************************)
\* The substrings classify_error looks for in the lower-cased stderr.
NetworkPatterns ==
    { "could not resolve", "failed to resolve", "network", "connection",
      "timed out", "unreachable", "no address", "dns", "unable to access" }

\* A git stderr text, as the set of phrases it contains.
Stderrs ==
    { {"fatal", "could not resolve"},
      {"fatal", "authentication failed"} }

\* classify_error.
classify_error(stderr) ==
    IF stderr \cap NetworkPatterns # {} THEN "NetworkUnreachable" ELSE "Git"

\* What the environment answers to the git subprocesses of one call:
\* whether `git --version` succeeds, whether clone / fetch exits with success,
\* the stderr text of a failing one, and whether `git reset --hard` succeeds.
GitEnvs ==
    [ installed : BOOLEAN, net_ok : BOOLEAN, stderr : Stderrs, reset : BOOLEAN ]

\* shallow_clone up to the git clone subprocess: validate_url (every URL of
\* Urls passes), check_git_available, create the parent directories and
\* remove_dir_all of an existing target.
clone_prepare(dir, env) ==
    IF ~env.installed
    THEN [res |-> "GitNotInstalled", dir |-> dir, ops |-> {"version"}, removed |-> FALSE]
    ELSE [res |-> "ok", dir |-> "absent", ops |-> {"version"}, removed |-> (dir # "absent")]

\* The `git clone --depth 1 --single-branch -- url target` subprocess and the
\* classification of its failure; a failed clone leaves no target directory.
\* git refuses a target that exists again ("already exists and is not an
\* empty directory", which classify_error finds no network phrase in).
git_clone(dir, env) ==
    IF dir # "absent"
    THEN [res |-> classify_error({"fatal", "already exists"}), dir |-> dir,
          ops |-> {"clone"}, removed |-> FALSE]
    ELSE IF env.net_ok
    THEN [res |-> "ok", dir |-> "repo", ops |-> {"clone"}, removed |-> FALSE]
    ELSE [res |-> classify_error(env.stderr), dir |-> "absent", ops |-> {"clone"},
          removed |-> FALSE]

\* shallow_clone: the result, the new state of the target directory, the git
\* subprocesses run and whether an existing directory was removed.
shallow_clone(dir, env) ==
    LET pre == clone_prepare(dir, env) IN
    IF pre.res # "ok" THEN pre
    ELSE LET g == git_clone(pre.dir, env) IN
         [res |-> g.res, dir |-> g.dir, ops |-> pre.ops \cup g.ops,
          removed |-> pre.removed \/ g.removed]

\* update: fetch --depth 1, symbolic-ref, reset --hard origin/<branch>, rev-parse.
update(dir, env) ==
    IF ~env.installed
    THEN [res |-> "GitNotInstalled", dir |-> dir, ops |-> {"version"}, removed |-> FALSE]
    ELSE IF dir = "absent"
    THEN [res |-> "NotFound", dir |-> dir, ops |-> {"version"}, removed |-> FALSE]
    ELSE IF dir = "nogit"
    THEN [res |-> "Git", dir |-> dir, ops |-> {"version", "fetch"}, removed |-> FALSE]
    ELSE IF ~env.net_ok
    THEN [res |-> classify_error(env.stderr), dir |-> dir,
          ops |-> {"version", "fetch"}, removed |-> FALSE]
    ELSE IF ~env.reset
    THEN [res |-> "Git", dir |-> dir,
          ops |-> {"version", "fetch", "symbolic-ref", "reset"}, removed |-> FALSE]
    ELSE [res |-> "ok", dir |-> dir,
          ops |-> {"version", "fetch", "symbolic-ref", "reset", "rev-parse"},
          removed |-> FALSE]

(***************************************************************************)
(* mapping/mod.rs                                                          *)
(***************************************************************************)
\* The needs_update decision of ensure_available.
needs_update_always(force_refresh, cached, stale) == TRUE
needs_update(force_refresh, cached, stale) ==
    IF force_refresh THEN TRUE
    ELSE IF ~cached THEN TRUE
    ELSE stale

\* try_update_or_clone.
try_update_or_clone(dir, cached, env) ==
    IF cached THEN update(dir, env) ELSE shallow_clone(dir, env)

\* The match on the result of try_update_or_clone: what ensure_available
\* returns, whether it writes the timestamp and whether it warns.
conclude_touching(res, cached) ==
    IF res = "ok"
    THEN [outcome |-> "Ok", was_refreshed |-> TRUE, write_ts |-> TRUE, warned |-> FALSE]
    ELSE IF res = "NetworkUnreachable" /\ cached
    THEN [outcome |-> "Ok", was_refreshed |-> FALSE, write_ts |-> TRUE, warned |-> TRUE]
    ELSE IF ~cached
    THEN [outcome |-> "NotAvailable", was_refreshed |-> FALSE, write_ts |-> FALSE, warned |-> FALSE]
    ELSE [outcome |-> "GitError", was_refreshed |-> FALSE, write_ts |-> FALSE, warned |-> FALSE]
conclude_no_fallback(res, cached) ==
    IF res = "ok"
    THEN [outcome |-> "Ok", was_refreshed |-> TRUE, write_ts |-> TRUE, warned |-> FALSE]
    ELSE IF ~cached
    THEN [outcome |-> "NotAvailable", was_refreshed |-> FALSE, write_ts |-> FALSE, warned |-> FALSE]
    ELSE [outcome |-> "GitError", was_refreshed |-> FALSE, write_ts |-> FALSE, warned |-> FALSE]
conclude_not_available(res, cached) ==
    IF res = "ok"
    THEN [outcome |-> "Ok", was_refreshed |-> TRUE, write_ts |-> TRUE, warned |-> FALSE]
    ELSE IF res = "NetworkUnreachable" /\ cached
    THEN [outcome |-> "Ok", was_refreshed |-> FALSE, write_ts |-> FALSE, warned |-> TRUE]
    ELSE [outcome |-> "NotAvailable", was_refreshed |-> FALSE, write_ts |-> FALSE, warned |-> FALSE]
conclude(res, cached) ==
    IF res = "ok"
    THEN [outcome |-> "Ok", was_refreshed |-> TRUE, write_ts |-> TRUE, warned |-> FALSE]
    ELSE IF res = "NetworkUnreachable" /\ cached
    THEN [outcome |-> "Ok", was_refreshed |-> FALSE, write_ts |-> FALSE, warned |-> TRUE]
    ELSE IF ~cached
    THEN [outcome |-> "NotAvailable", was_refreshed |-> FALSE, write_ts |-> FALSE, warned |-> FALSE]
    ELSE [outcome |-> "GitError", was_refreshed |-> FALSE, write_ts |-> FALSE, warned |-> FALSE]

NoUrl == [scheme |-> "", host |-> "", user |-> "", repo |-> "", suffix |-> ""]

\* The record of a call that has not happened.
NoCall ==
    [ url |-> NoUrl, force_refresh |-> FALSE, is_cached |-> FALSE, modified |-> NoFile,
      stale |-> FALSE, needs_update |-> FALSE, git |-> "none", ops |-> {},
      removed |-> FALSE, outcome |-> "none", was_refreshed |-> FALSE, warned |-> FALSE,
      wrote_timestamp |-> FALSE, local_path |-> <<>>, at |-> 0 ]

\* What a call has seen when it has decided needs_update: the URL and flag it
\* was given, is_cached, the timestamp file's mtime and the clock it read.
Decided(url, force_refresh, dirs, ts, t) ==
    LET cached == is_cached(dirs, url)
        stale == IF cached /\ ~force_refresh THEN needs_refresh(ts, t, url) ELSE FALSE
    IN [ NoCall EXCEPT
           !.url = url, !.force_refresh = force_refresh, !.is_cached = cached,
           !.modified = ts[timestamp_file_path(url)], !.stale = stale,
           !.needs_update = needs_update(force_refresh, cached, stale), !.at = t ]

\* The record of a decided call d that needed no update.
CachedCall(d) ==
    [ d EXCEPT !.outcome = "Ok", !.local_path = get_repo_path(d.url) ]

\* The record of a decided call d whose try_update_or_clone gave res.
UpdatedCall(d, res) ==
    LET c == conclude(res, d.is_cached) IN
    [ d EXCEPT
        !.git = res, !.outcome = c.outcome, !.was_refreshed = c.was_refreshed,
        !.warned = c.warned, !.wrote_timestamp = c.write_ts,
        !.local_path = IF c.outcome = "Ok" THEN get_repo_path(d.url) ELSE <<>> ]

TypeOK ==
    /\ now \in 0..(MaxTime + TickHours)
    /\ repoDir \in [RepoPaths -> {"absent", "nogit", "repo"}]
    /\ tsFile \in [TsPaths -> {NoFile} \cup 0..(MaxTime + TickHours)]

InitCache ==
    /\ now = 0
    /\ repoDir \in [RepoPaths -> {"absent", "nogit"}]
    /\ tsFile = [p \in TsPaths |-> NoFile]
    /\ call = NoCall

InitProcs ==
    /\ pc = [p \in 1..NumProcs |-> "idle"]
    /\ plocal = [p \in 1..NumProcs |-> NoCall]

\* MappingRepository::ensure_available(url, force_refresh), run to its end.
EnsureAvailable(url, force_refresh, env) ==
    LET path == get_repo_path(url)
        d == Decided(url, force_refresh, repoDir, tsFile, now)
    IN
    IF d.needs_update
    THEN LET g == try_update_or_clone(repoDir[path], d.is_cached, env)
             c == [UpdatedCall(d, g.res) EXCEPT !.ops = g.ops, !.removed = g.removed]
         IN /\ repoDir' = [repoDir EXCEPT ![path] = g.dir]
            /\ tsFile' = IF c.wrote_timestamp THEN update_timestamp(tsFile, now, url)
                         ELSE tsFile
            /\ call' = c
            /\ UNCHANGED now
    ELSE /\ call' = CachedCall(d)
         /\ UNCHANGED <<now, repoDir, tsFile>>

\* Time passes.
Tick ==
    /\ now + TickHours <= MaxTime
    /\ now' = now + TickHours
    /\ UNCHANGED <<repoDir, tsFile, call>>

\* The system clock is set back (SystemTime is not monotonic).
ClockSetBack ==
    /\ now >= TickHours
    /\ now' = now - TickHours
    /\ UNCHANGED <<repoDir, tsFile, call>>

\* ModuleContext::root() on the stack, nothing parsed, nothing grouped.
InitParse ==
    /\ providers = <<>>
    /\ blocks = <<>>
    /\ modStack = << [address_prefix |-> <<>>, provider_key_to_root |-> <<>>, mappings |-> <<>>] >>
    /\ phase = "parsing"
    /\ provider_groups = <<>>
    /\ unmapped_blocks = <<>>

\* No execute call, no run of main and no walk has begun.
InitRun ==
    /\ fsys = {}
    /\ execCall = [pc |-> "none"]
    /\ mainCall = [called |-> FALSE]
    /\ walk = [pc |-> "none"]

\* MappingLoader::new: empty cache; no mapping file in the repository yet,
\* nothing loaded, nothing matched.
InitMatch ==
    /\ mappingFiles = <<>>
    /\ loaderCache = <<>>
    /\ loadCall = [provider |-> <<>>, block_type |-> "none", type_name |-> <<>>,
                   ok |-> TRUE, value |-> <<>>, fs_reads |-> 0, hit |-> FALSE]
    /\ permResult = [called |-> FALSE]
    /\ outCall = [called |-> FALSE]
    /\ InitRun

Init == InitCache /\ InitProcs /\ InitParse /\ InitMatch

Next ==
    \/ \E url \in Urls, force_refresh \in BOOLEAN, env \in GitEnvs :
          EnsureAvailable(url, force_refresh, env) /\ UNCHANGED <<procVars, parseVars, matchVars, outVars, runVars>>
    \/ Tick /\ UNCHANGED <<procVars, parseVars, matchVars, outVars, runVars>>
    \/ ClockSetBack /\ UNCHANGED <<procVars, parseVars, matchVars, outVars, runVars>>

Spec == Init /\ [][Next]_vars

(***************************************************************************)
(* Concurrent lppc processes sharing ~/.lppc.  Each runs ensure_available  *)
(* once; its steps are the points where it reads or writes the shared      *)
(* directory: the is_cached / needs_refresh reads, shallow_clone up to     *)
(* remove_dir_all, the git clone subprocess, update, and the timestamp     *)
(* write.  A process at "done" holds the MappingRepository it was returned *)
(* and reads mapping files under its local_path.                           *)
(***************************************************************************)
Procs == 1..NumProcs

\* The processes are all given the same URL.
ConcUrls == { u \in Urls : u.scheme = "https://" }

\* ensure_available up to the needs_update decision.
CStart(p, url, force_refresh) ==
    /\ pc[p] = "idle"
    /\ LET d == Decided(url, force_refresh, repoDir, tsFile, now) IN
       IF d.needs_update
       THEN /\ pc' = [pc EXCEPT ![p] = IF d.is_cached THEN "update" ELSE "clone"]
            /\ plocal' = [plocal EXCEPT ![p] = d]
       ELSE /\ pc' = [pc EXCEPT ![p] = "done"]
            /\ plocal' = [plocal EXCEPT ![p] = CachedCall(d)]
    /\ UNCHANGED cacheVars

\* shallow_clone up to and including remove_dir_all.
CPrepare(p, env) ==
    /\ pc[p] = "clone"
    /\ LET path == get_repo_path(plocal[p].url)
           pre == clone_prepare(repoDir[path], env)
       IN /\ repoDir' = [repoDir EXCEPT ![path] = pre.dir]
          /\ plocal' = [plocal EXCEPT ![p].ops = pre.ops, ![p].removed = pre.removed,
                                       ![p].git = IF pre.res = "ok" THEN "none" ELSE pre.res]
          /\ pc' = [pc EXCEPT ![p] = IF pre.res = "ok" THEN "cloning" ELSE "conclude"]
    /\ UNCHANGED <<now, tsFile, call>>

\* The git clone subprocess of shallow_clone.
CClone(p, env) ==
    /\ pc[p] = "cloning"
    /\ LET path == get_repo_path(plocal[p].url)
           g == git_clone(repoDir[path], env)
       IN /\ repoDir' = [repoDir EXCEPT ![path] = g.dir]
          /\ plocal' = [plocal EXCEPT ![p].ops = @ \cup g.ops, ![p].git = g.res]
          /\ pc' = [pc EXCEPT ![p] = "conclude"]
    /\ UNCHANGED <<now, tsFile, call>>

\* GitOperations::update.
CUpdate(p, env) ==
    /\ pc[p] = "update"
    /\ LET path == get_repo_path(plocal[p].url)
           g == update(repoDir[path], env)
       IN /\ repoDir' = [repoDir EXCEPT ![path] = g.dir]
          /\ plocal' = [plocal EXCEPT ![p].ops = g.ops, ![p].git = g.res]
          /\ pc' = [pc EXCEPT ![p] = "conclude"]
    /\ UNCHANGED <<now, tsFile, call>>

\* The match on the result: update_timestamp on success, then return.
CConclude(p) ==
    /\ pc[p] = "conclude"
    /\ LET c == UpdatedCall(plocal[p], plocal[p].git) IN
       /\ plocal' = [plocal EXCEPT ![p] = c]
       /\ tsFile' = IF c.wrote_timestamp THEN update_timestamp(tsFile, now, c.url)
                    ELSE tsFile
    /\ pc' = [pc EXCEPT ![p] = "done"]
    /\ UNCHANGED <<now, repoDir, call>>

\* Time passes while the processes run.
CTick ==
    /\ now + TickHours <= ConcMaxTime
    /\ Tick
    /\ UNCHANGED procVars

NextConc ==
    \/ \E p \in Procs, url \in ConcUrls, force_refresh \in BOOLEAN :
          CStart(p, url, force_refresh) /\ UNCHANGED <<parseVars, matchVars, outVars, runVars>>
    \/ \E p \in Procs, env \in GitEnvs : CPrepare(p, env) /\ UNCHANGED <<parseVars, matchVars, outVars, runVars>>
    \/ \E p \in Procs, env \in GitEnvs : CClone(p, env) /\ UNCHANGED <<parseVars, matchVars, outVars, runVars>>
    \/ \E p \in Procs, env \in GitEnvs : CUpdate(p, env) /\ UNCHANGED <<parseVars, matchVars, outVars, runVars>>
    \/ \E p \in Procs : CConclude(p) /\ UNCHANGED <<parseVars, matchVars, outVars, runVars>>
    \/ CTick /\ UNCHANGED <<parseVars, matchVars, outVars, runVars>>

SpecConc == Init /\ [][NextConc]_vars

(***************************************************************************)
(* Properties of the mapping cache, checked under Spec.                 *)
(***************************************************************************)
Called == call.url # NoUrl

\* C1: ensure_available writes the timestamp file of the URL only after the
\* clone or update attempted in that same call has succeeded; a call that
\* needs no update, or whose clone/update fails (the NetworkUnreachable
\* fallback included), leaves every timestamp file as it was.
C1_TimestampOnlyAfterSuccess ==
    [][ /\ call'.wrote_timestamp => call'.needs_update /\ call'.git = "ok"
        /\ \A p \in TsPaths :
              tsFile'[p] # tsFile[p] =>
                 /\ call'.wrote_timestamp
                 /\ p = timestamp_file_path(call'.url)
                 /\ tsFile'[p] = call'.at
        /\ (call' # call /\ ~(call'.needs_update /\ call'.git = "ok")) => tsFile' = tsFile
      ]_vars

C1_Witness ==
    /\ Called /\ call.needs_update /\ call.git = "ok" /\ call.wrote_timestamp
    /\ tsFile[timestamp_file_path(call.url)] = call.at
    /\ call.at > 0

\* C2: when an update is needed, a cached copy exists and the git operation
\* fails with a failure classified NetworkUnreachable, ensure_available warns
\* and returns success with the existing cached path, was_refreshed = false.
C2_NetworkFallback ==
    (Called /\ call.needs_update /\ call.is_cached /\ call.git = "NetworkUnreachable") =>
        /\ call.outcome = "Ok"
        /\ call.warned
        /\ ~call.was_refreshed
        /\ call.local_path = get_repo_path(call.url)
        /\ repoDir[get_repo_path(call.url)] = "repo"

C2_Witness ==
    /\ Called /\ call.needs_update /\ call.is_cached /\ call.git = "NetworkUnreachable"
    /\ call.outcome = "Ok"

C4_Iff ==
    Called =>
        ( call.ops # {} <=>
            \/ call.force_refresh
            \/ ~call.is_cached
            \/ call.modified = NoFile
            \/ call.at - call.modified > CACHE_EXPIRY_HOURS
            \/ call.modified > call.at )

C4_SecondRun ==
    ( /\ call' # call
      /\ call.url = call'.url
      /\ call.outcome = "Ok"
      /\ call.was_refreshed \/ ~call.needs_update
      /\ call.at = call'.at
      /\ ~call'.force_refresh )
    => /\ call'.ops = {}
       /\ call'.outcome = "Ok"
       /\ repoDir' = repoDir /\ tsFile' = tsFile

C5_StaleReadOnlyExtraFetch ==
    \A p \in Procs :
        (pc[p] = "done" /\ plocal[p].is_cached /\ plocal[p].stale) =>
            /\ plocal[p].outcome = "Ok" \/ plocal[p].git \in {"Git", "GitNotInstalled"}
            /\ ~plocal[p].removed

(***************************************************************************)
(* Provider grouping (terraform/hcl_parser.rs, terraform/provider.rs).     *)
(* Aliases, provider keys and output names are inspected character by      *)
(* character by the code, so they are sequences of one-character strings.  *)
(* Option<T> is the empty sequence (None) or a one-element sequence.       *)
(***************************************************************************)
MaxProviders == 2
MaxBlocks == 2

None == <<>>
Some(x) == <<x>>

LowerCase == <<"a","b","c","d","e","f","g","h","i","j","k","l","m",
               "n","o","p","q","r","s","t","u","v","w","x","y","z">>
UpperCase == <<"A","B","C","D","E","F","G","H","I","J","K","L","M",
               "N","O","P","Q","R","S","T","U","V","W","X","Y","Z">>
Digits == <<"0","1","2","3","4","5","6","7","8","9">>
\* Byte order of the characters that occur:
\* ' ' < '-' < '.' < '/' < '0'..'9' < ':' < 'A'..'Z' < '\' < '_' < 'a'..'z'.
AsciiOrder == <<" ", "-", ".", "/">> \o Digits \o <<":">> \o UpperCase
              \o <<"\\", "_">> \o LowerCase

IndexOf(seq, c) == CHOOSE i \in 1..Len(seq) : seq[i] = c
InSeq(seq, c) == \E i \in 1..Len(seq) : seq[i] = c
is_uppercase(c) == InSeq(UpperCase, c)
char_to_uppercase(c) == IF InSeq(LowerCase, c) THEN UpperCase[IndexOf(LowerCase, c)] ELSE c
char_to_lowercase(c) == IF InSeq(UpperCase, c) THEN LowerCase[IndexOf(UpperCase, c)] ELSE c
to_lowercase(s) == [i \in 1..Len(s) |-> char_to_lowercase(s[i])]
Ord(c) == IndexOf(AsciiOrder, c)
ends_with(s, suffix) ==
    /\ Len(s) >= Len(suffix)
    /\ SubSeq(s, Len(s) - Len(suffix) + 1, Len(s)) = suffix

RECURSIVE StrLess(_, _)
\* Ord for &str: lexicographic on bytes, a proper prefix sorts first.
StrLess(s, t) ==
    IF t = <<>> THEN FALSE
    ELSE IF s = <<>> THEN TRUE
    ELSE IF s[1] # t[1] THEN Ord(s[1]) < Ord(t[1])
    ELSE StrLess(Tail(s), Tail(t))

is_separator(c) == c = "_" \/ c = "-"

RECURSIVE split_segments(_, _)
\* input.split(|c| c == '_' || c == '-'): cur is the segment being read.
split_segments(s, cur) ==
    IF s = <<>> THEN <<cur>>
    ELSE IF is_separator(s[1]) THEN <<cur>> \o split_segments(Tail(s), <<>>)
    ELSE split_segments(Tail(s), Append(cur, s[1]))

capitalize_segment(segment) ==
    IF segment = <<>> THEN <<>>
    ELSE <<char_to_uppercase(segment[1])>> \o to_lowercase(Tail(segment))

RECURSIVE concat_segments(_)
concat_segments(segs) ==
    IF segs = <<>> THEN <<>>
    ELSE (IF segs[1] = <<>> THEN <<>> ELSE capitalize_segment(segs[1]))
         \o concat_segments(Tail(segs))

to_pascal_case(input) ==
    IF input = <<>> THEN <<>>
    ELSE IF \E i \in 1..Len(input) : is_separator(input[i])
         THEN concat_segments(split_segments(input, <<>>))
    ELSE IF \A i \in 1..Len(input) : ~is_uppercase(input[i])
         THEN <<char_to_uppercase(input[1])>> \o Tail(input)
    ELSE input

DeployerSuffix == <<"D","e","p","l","o","y","e","r">>
DefaultDeployer == <<"D","e","f","a","u","l","t">> \o DeployerSuffix
AwsKey == <<"a","w","s">>

\* parse_provider_block: config_key is "aws" or "aws.<alias>".
config_key_of(alias) ==
    IF alias = None THEN AwsKey ELSE AwsKey \o <<".">> \o alias[1]

ParsedProvider(alias, role_arn) ==
    [config_key |-> config_key_of(alias), alias |-> alias, role_arn |-> role_arn]

\* sorted_aliases.first(): the least alias in byte order.
first_sorted(aliases) ==
    CHOOSE a \in aliases : \A b \in aliases : a = b \/ StrLess(a, b)

derive_group_name(provs) ==
    IF \E i \in 1..Len(provs) : provs[i].alias = None THEN DefaultDeployer
    ELSE IF provs = <<>> THEN DefaultDeployer
    ELSE LET pascal_alias == to_pascal_case(first_sorted({provs[i].alias[1] : i \in 1..Len(provs)}))
         IN IF ends_with(to_lowercase(pascal_alias), to_lowercase(DeployerSuffix))
            THEN SubSeq(pascal_alias, 1, Len(pascal_alias) - 8) \o DeployerSuffix
            ELSE pascal_alias \o DeployerSuffix

\* HashMap: a function whose domain is the set of keys; <<>> is the empty map.
map_insert(m, k, v) == [x \in DOMAIN m \cup {k} |-> IF x = k THEN v ELSE m[x]]

\* role_arn -> the providers declaring it, in declaration order.
role_to_providers(provs) ==
    [r \in {provs[i].role_arn : i \in 1..Len(provs)} |->
        SelectSeq(provs, LAMBDA p : p.role_arn = r)]

RECURSIVE key_to_role(_)
\* config_key -> role_arn; a later insert of the same key overwrites.
key_to_role(provs) ==
    IF provs = <<>> THEN <<>>
    ELSE LET n == Len(provs)
         IN map_insert(key_to_role(SubSeq(provs, 1, n - 1)),
                       provs[n].config_key, provs[n].role_arn)

role_to_name(provs) ==
    LET rtp == role_to_providers(provs)
    IN [r \in DOMAIN rtp |-> derive_group_name(rtp[r])]

\* Variant: an unknown key takes the role of the default "aws" provider.
block_role_arn_default(ktr, key) ==
    IF key \in DOMAIN ktr THEN ktr[key]
    ELSE IF AwsKey \in DOMAIN ktr THEN ktr[AwsKey] ELSE None

\* key_to_role.get(&block.provider_config_key).cloned().unwrap_or(None)
block_role_arn(ktr, key) ==
    IF key \in DOMAIN ktr THEN ktr[key] ELSE None

\* role_to_name.get(&role_arn).cloned().unwrap_or_else(|| "DefaultDeployer")
block_output_name(rtn, role_arn) ==
    IF role_arn \in DOMAIN rtn THEN rtn[role_arn] ELSE DefaultDeployer

\* Variant: the entry is overwritten instead of extended.
push_block_replace(groups, output_name, role_arn, block) ==
    map_insert(groups, output_name,
               [output_name |-> output_name, role_arn |-> role_arn, blocks |-> <<block>>])

\* groups.entry(output_name).or_insert_with(..).blocks.push(block)
push_block(groups, output_name, role_arn, block) ==
    IF output_name \in DOMAIN groups
    THEN [groups EXCEPT ![output_name].blocks = Append(@, block)]
    ELSE map_insert(groups, output_name,
                    [output_name |-> output_name, role_arn |-> role_arn, blocks |-> <<block>>])

RECURSIVE group_blocks(_, _, _, _)
\* for block in blocks { ... }
group_blocks(groups, ktr, rtn, bs) ==
    IF bs = <<>> THEN groups
    ELSE LET block == bs[1]
             role_arn == block_role_arn(ktr, block.provider_config_key)
             output_name == block_output_name(rtn, role_arn)
         IN group_blocks(push_block(groups, output_name, role_arn, block),
                         ktr, rtn, Tail(bs))

group_by_role(provs, bs) ==
    group_blocks(<<>>, key_to_role(provs), role_to_name(provs), bs)

(***************************************************************************)
(* Module contexts (terraform/model.rs).                                   *)
(***************************************************************************)
MaxDepth == 2
MaxModuleBlocks == 1

\* ProviderMappings::resolve
mappings_resolve(mappings, local_key) ==
    IF local_key \in DOMAIN mappings THEN mappings[local_key] ELSE local_key

\* ModuleContext::resolve_to_root
resolve_to_root(context, local_key) ==
    IF local_key \in DOMAIN context.provider_key_to_root
    THEN context.provider_key_to_root[local_key]
    ELSE local_key

\* ModuleContext::root; mappings is bookkeeping of extract_blocks_recursive:
\* the providers map of the module call the context was built for.
root_context ==
    [address_prefix |-> <<>>, provider_key_to_root |-> <<>>, mappings |-> <<>>]

\* ModuleContext::child
child(context, module_name, mappings) ==
    [address_prefix |-> context.address_prefix \o <<"module", module_name>>,
     provider_key_to_root |->
        [local_key \in DOMAIN mappings |-> resolve_to_root(context, mappings[local_key])],
     mappings |-> mappings]

\* alias attribute: absent, the empty string literal, or a name.
Aliases == { None, Some(<<>>), Some(<<"a">>), Some(<<"A">>), Some(<<"a", "_">>) }
RoleArns == { None, Some("arn:r1"), Some("arn:r2") }
\* Keys a root-module block may name: declared ones and one nobody declares.
BlockKeys == { AwsKey, config_key_of(Some(<<>>)), config_key_of(Some(<<"a">>)),
               config_key_of(Some(<<"A">>)), config_key_of(Some(<<"z">>)) }
\* Keys used inside modules and the parent keys a call may map them to.
ModuleKeys == { AwsKey, config_key_of(Some(<<"a">>)) }
ModuleNames == { "m" }
AllMappings == UNION { [D -> ModuleKeys] : D \in SUBSET ModuleKeys }

Top == modStack[Len(modStack)]
declared(key) == \E i \in 1..Len(providers) : providers[i].config_key = key

\* parse_provider_block in a file of the root module (providers of child
\* modules are dropped); terraform init has already rejected a second
\* configuration with the same key.
ParseProvider(alias, role_arn) ==
    /\ phase = "parsing"
    /\ Len(modStack) = 1
    /\ Len(providers) < MaxProviders
    /\ ~declared(config_key_of(alias))
    /\ providers' = Append(providers, ParsedProvider(alias, role_arn))
    /\ UNCHANGED <<blocks, modStack, phase, provider_groups, unmapped_blocks>>

\* parse_resource_block_with_context in the module on top of the stack.
ParseBlock(local_provider_key, limit) ==
    /\ phase = "parsing"
    /\ Len(blocks) < limit
    /\ blocks' = Append(blocks,
          [address_prefix |-> Top.address_prefix,
           name |-> Len(blocks) + 1,
           provider_config_key |-> resolve_to_root(Top, local_provider_key)])
    /\ UNCHANGED <<providers, modStack, phase, provider_groups, unmapped_blocks>>

\* extract_blocks_recursive follows a module call found in the manifest.
EnterModule(module_name, mappings) ==
    /\ phase = "parsing"
    /\ Len(modStack) <= MaxDepth
    /\ modStack' = Append(modStack, child(Top, module_name, mappings))
    /\ UNCHANGED <<providers, blocks, phase, provider_groups, unmapped_blocks>>

\* extract_blocks_recursive returns to the calling module.
LeaveModule ==
    /\ phase = "parsing"
    /\ Len(modStack) > 1
    /\ modStack' = SubSeq(modStack, 1, Len(modStack) - 1)
    /\ UNCHANGED <<providers, blocks, phase, provider_groups, unmapped_blocks>>

\* parse_directory after the recursion returned: group and build the config.
GroupByRole ==
    /\ phase = "parsing"
    /\ Len(modStack) = 1
    /\ provider_groups' = group_by_role(providers, blocks)
    /\ unmapped_blocks' = <<>>
    /\ phase' = "grouped"
    /\ UNCHANGED <<providers, blocks, modStack>>

InitIdleCache ==
    /\ now = 0
    /\ repoDir = [p \in RepoPaths |-> "absent"]
    /\ tsFile = [p \in TsPaths |-> NoFile]
    /\ call = NoCall

InitGroup == InitIdleCache /\ InitProcs /\ InitParse /\ InitMatch

NextGroup ==
    \/ \E alias \in Aliases, role_arn \in RoleArns :
          ParseProvider(alias, role_arn) /\ UNCHANGED <<cacheVars, procVars, matchVars, outVars, runVars>>
    \/ \E key \in BlockKeys : ParseBlock(key, MaxBlocks) /\ UNCHANGED <<cacheVars, procVars, matchVars, outVars, runVars>>
    \/ GroupByRole /\ UNCHANGED <<cacheVars, procVars, matchVars, outVars, runVars>>

SpecGroup == InitGroup /\ [][NextGroup]_vars

NextModule ==
    \/ \E key \in ModuleKeys :
          ParseBlock(key, MaxModuleBlocks) /\ UNCHANGED <<cacheVars, procVars, matchVars, outVars, runVars>>
    \/ \E module_name \in ModuleNames, mappings \in AllMappings :
          EnterModule(module_name, mappings) /\ UNCHANGED <<cacheVars, procVars, matchVars, outVars, runVars>>
    \/ LeaveModule /\ UNCHANGED <<cacheVars, procVars, matchVars, outVars, runVars>>

SpecModule == InitGroup /\ [][NextModule]_vars

(***************************************************************************)
(* Properties of the grouping and of the module contexts.                  *)
(***************************************************************************)
Grouped == phase = "grouped"
provider_of(key) == providers[CHOOSE i \in 1..Len(providers) : providers[i].config_key = key]
\* The output name derived for all providers that declare role_arn.
name_of_role(role_arn) ==
    derive_group_name(SelectSeq(providers, LAMBDA p : p.role_arn = role_arn))
\* The places (group, position) at which block i of the input occurs.
Occurrences(i) ==
    UNION { { <<n, j>> : j \in { k \in 1..Len(provider_groups[n].blocks) :
                                    provider_groups[n].blocks[k] = blocks[i] } } :
            n \in DOMAIN provider_groups }
InGroup(i, n) ==
    /\ n \in DOMAIN provider_groups
    /\ \E j \in 1..Len(provider_groups[n].blocks) : provider_groups[n].blocks[j] = blocks[i]

\* C6: after grouping, every parsed block occurs in exactly one provider
\* group and exactly once there, and a block whose provider_config_key names
\* a declared provider is in the group derived for that provider's role.
C6_ExactlyOneGroup ==
    Grouped =>
        \A i \in 1..Len(blocks) :
            /\ Cardinality(Occurrences(i)) = 1
            /\ declared(blocks[i].provider_config_key) =>
                  InGroup(i, name_of_role(provider_of(blocks[i].provider_config_key).role_arn))

C6_Witness ==
    /\ Grouped
    /\ Len(blocks) = 2
    /\ Cardinality(DOMAIN provider_groups) = 2
    /\ \A i \in 1..Len(blocks) : declared(blocks[i].provider_config_key)

\* C7: two providers share a group if and only if their role_arn values are
\* equal, and two blocks whose providers declare different role_arn values
\* are never in the same group.
C7_GroupedIffSameRole ==
    Grouped =>
        /\ \A p, q \in 1..Len(providers) :
              (name_of_role(providers[p].role_arn) = name_of_role(providers[q].role_arn))
                  <=> (providers[p].role_arn = providers[q].role_arn)
        /\ \A n \in DOMAIN provider_groups :
              \A j, k \in 1..Len(provider_groups[n].blocks) :
                 LET kj == provider_groups[n].blocks[j].provider_config_key
                     kk == provider_groups[n].blocks[k].provider_config_key
                 IN (declared(kj) /\ declared(kk)) =>
                        provider_of(kj).role_arn = provider_of(kk).role_arn

\* C8: for every group G and every block B of G whose key names a declared
\* root provider, that provider's role_arn equals G.role_arn.
C8_GroupSharesRoleArn ==
    Grouped =>
        \A n \in DOMAIN provider_groups :
            \A j \in 1..Len(provider_groups[n].blocks) :
                LET key == provider_groups[n].blocks[j].provider_config_key
                IN declared(key) => provider_of(key).role_arn = provider_groups[n].role_arn

\* C9: every context on the recursion path below the root resolves each key
\* as its parent context resolves the key the call's mappings give for it
\* (the key itself when the call does not remap it).
C9_ChildResolvesThroughParent ==
    \A d \in 2..Len(modStack) :
        \A k \in ModuleKeys :
            resolve_to_root(modStack[d], k) =
                resolve_to_root(modStack[d - 1], mappings_resolve(modStack[d].mappings, k))

\* C10 as stated: a block whose key names no declared provider is in the
\* group of the default "aws" provider when one is declared, and otherwise
\* is recorded in unmapped_blocks and in no group.
C10_FallbackToAwsOrUnmapped ==
    Grouped =>
        \A i \in 1..Len(blocks) :
            ~declared(blocks[i].provider_config_key) =>
                IF declared(AwsKey)
                THEN InGroup(i, name_of_role(provider_of(AwsKey).role_arn))
                ELSE /\ \E j \in 1..Len(unmapped_blocks) : unmapped_blocks[j] = blocks[i]
                     /\ Occurrences(i) = {}

\* C10 as amended: nothing is ever recorded in unmapped_blocks; a block whose
\* key names no declared provider is grouped like a block without role_arn:
\* in the group named for the providers that declare no role_arn when there
\* are such providers, and in the group "DefaultDeployer" otherwise.
C10_UndeclaredKeyHasNoRole ==
    Grouped =>
        /\ unmapped_blocks = <<>>
        /\ \A i \in 1..Len(blocks) :
              ~declared(blocks[i].provider_config_key) =>
                  IF \E p \in 1..Len(providers) : providers[p].role_arn = None
                  THEN InGroup(i, name_of_role(None))
                  ELSE InGroup(i, DefaultDeployer)

C10_Witness ==
    /\ Grouped
    /\ declared(AwsKey)
    /\ provider_of(AwsKey).role_arn # None
    /\ \E p \in 1..Len(providers) : providers[p].role_arn = None
    /\ \E i \in 1..Len(blocks) :
          /\ ~declared(blocks[i].provider_config_key)
          /\ ~InGroup(i, DefaultDeployer)
          /\ InGroup(i, name_of_role(None))

\* C11: when some provider of a role has no alias or the empty alias, the
\* blocks of that role's providers are in the group named "DefaultDeployer".
C11_NoOrEmptyAliasIsDefault ==
    Grouped =>
        \A i \in 1..Len(blocks) :
            LET key == blocks[i].provider_config_key
            IN (/\ declared(key)
                /\ \E q \in 1..Len(providers) :
                      /\ providers[q].role_arn = provider_of(key).role_arn
                      /\ providers[q].alias \in {None, Some(<<>>)})
               => InGroup(i, DefaultDeployer)

(***************************************************************************)
(* Mapping loader (mapping/loader.rs).  Provider and type names are        *)
(* validated character by character, so they are character sequences.      *)
(***************************************************************************)
is_ascii_alphanumeric(c) == InSeq(LowerCase, c) \/ InSeq(UpperCase, c) \/ InSeq(Digits, c)

\* Variant: the leading '-' is not rejected.
is_valid_path_component_lax(s) ==
    /\ s # <<>>
    /\ \A i \in 1..Len(s) : is_ascii_alphanumeric(s[i]) \/ s[i] = "_" \/ s[i] = "-"

is_valid_path_component(s) ==
    /\ s # <<>>
    /\ s[1] # "-"
    /\ \A i \in 1..Len(s) : is_ascii_alphanumeric(s[i]) \/ s[i] = "_" \/ s[i] = "-"

BlockTypes == {"resource", "data"}

\* format!("{}/{}/{}", provider, block_type.as_str(), type_name)
cache_key(provider, block_type, type_name) ==
    provider \o <<"/">> \o <<block_type>> \o <<"/">> \o type_name

\* repo_path/mappings/<provider>/<block_type>/<type_name>.yaml, by components
mapping_file_path(provider, block_type, type_name) ==
    <<provider, block_type, type_name \o <<".yaml">> >>

AwsName == <<"a","w","s">>
AwsTypeA == <<"a","w","s","_","a">>
\* Names handed to load: valid ones, and ones the validation must reject.
LoadProviders == { AwsName, <<>>, <<".", ".">> }
LoadTypeNames == { AwsTypeA, <<"-","a">>, <<"a","/","b">>, <<"a",".","b">> }
FilePaths == { mapping_file_path(AwsName, bt, AwsTypeA) : bt \in BlockTypes }

\* ConditionalActions: Actions(list) | Nested(map) | None
CondActions(actions) == [kind |-> "Actions", actions |-> actions, map |-> <<>>]
CondNested(map) == [kind |-> "Nested", actions |-> <<>>, map |-> map]
CondNone == [kind |-> "None", actions |-> <<>>, map |-> <<>>]

\* What yaml_parser::parse_mapping yields for the two well-formed file
\* contents "m1" and "m2".
parse_mapping(content) ==
    IF content = "m1"
    THEN [allow |-> <<"ec2:Create">>,
          deny |-> <<"ec2:Delete">>,
          conditional |-> CondNested(
              [k \in {"vpc", "tags"} |->
                  IF k = "vpc"
                  THEN CondNested([j \in {"vpc_id"} |-> CondActions(<<"r53:Associate">>)])
                  ELSE CondActions(<<"ec2:Tag">>)])]
    ELSE [allow |-> <<"ec2:Delete">>,
          deny |-> <<"r53:Associate">>,
          conditional |-> CondNested(
              [k \in {"vpc", "tags"} |->
                  IF k = "vpc" THEN CondActions(<<"r53:Associate">>) ELSE CondNone])]

\* File contents: no file, a well-formed mapping, or YAML that fails to parse.
FileContents == {"absent", "m1", "m2", "bad"}

\* Variant: the cache is not consulted, the file is read on every call.
cache_lookup_never(cache, key) == FALSE

\* cache.get(&cache_key) is Some
cache_lookup(cache, key) == key \in DOMAIN cache

\* MappingLoader::load: the result, the cache afterwards, and the number of
\* file-system accesses (exists, metadata, read) the call made.
load(cache, files, provider, block_type, type_name) ==
    IF ~is_valid_path_component(provider) \/ ~is_valid_path_component(type_name)
    THEN [ok |-> TRUE, value |-> None, cache |-> cache, fs_reads |-> 0, hit |-> FALSE]
    ELSE LET key == cache_key(provider, block_type, type_name)
             file_path == mapping_file_path(provider, block_type, type_name)
             content == IF file_path \in DOMAIN files THEN files[file_path] ELSE "absent"
         IN IF cache_lookup(cache, key)
            THEN [ok |-> TRUE, value |-> cache[key], cache |-> cache, fs_reads |-> 0, hit |-> TRUE]
            ELSE IF content = "absent"
            THEN [ok |-> TRUE, value |-> None, cache |-> map_insert(cache, key, None),
                  fs_reads |-> 1, hit |-> FALSE]
            ELSE IF content = "bad"
            THEN [ok |-> FALSE, value |-> None, cache |-> cache, fs_reads |-> 3, hit |-> FALSE]
            ELSE [ok |-> TRUE, value |-> Some(content),
                  cache |-> map_insert(cache, key, Some(content)),
                  fs_reads |-> 3, hit |-> FALSE]

InitLoad ==
    /\ InitIdleCache /\ InitProcs /\ InitParse
    /\ mappingFiles \in [FilePaths -> {"absent", "m1"}]
    /\ loaderCache = <<>>
    /\ loadCall = [provider |-> <<>>, block_type |-> "none", type_name |-> <<>>,
                   ok |-> TRUE, value |-> <<>>, fs_reads |-> 0, hit |-> FALSE]
    /\ permResult = [called |-> FALSE]
    /\ outCall = [called |-> FALSE]
    /\ InitRun

\* One call of MappingLoader::load.
Load(provider, block_type, type_name) ==
    LET r == load(loaderCache, mappingFiles, provider, block_type, type_name)
    IN /\ loaderCache' = r.cache
       /\ loadCall' = [provider |-> provider, block_type |-> block_type,
                       type_name |-> type_name, ok |-> r.ok, value |-> r.value,
                       fs_reads |-> r.fs_reads, hit |-> r.hit]
       /\ UNCHANGED <<mappingFiles, permResult>>

\* The repository checkout changes under the running process: a mapping
\* file is created, rewritten or removed.
ChangeFile(path, content) ==
    /\ mappingFiles[path] # content
    /\ mappingFiles' = [mappingFiles EXCEPT ![path] = content]
    /\ UNCHANGED <<loaderCache, loadCall, permResult>>

NextLoad ==
    \/ \E provider \in LoadProviders, block_type \in BlockTypes, type_name \in LoadTypeNames :
          Load(provider, block_type, type_name) /\ UNCHANGED <<cacheVars, procVars, parseVars, outVars, runVars>>
    \/ \E path \in FilePaths, content \in FileContents :
          ChangeFile(path, content) /\ UNCHANGED <<cacheVars, procVars, parseVars, outVars, runVars>>

SpecLoad == InitLoad /\ [][NextLoad]_vars

LoadCalled == loadCall.block_type # "none"

\* C15: a load whose provider or type_name is empty, starts with '-' or
\* holds a character outside [A-Za-z0-9_-] returns Ok(None), accesses no
\* file and leaves the loader as it was.
C15_InvalidNameShortCircuits ==
    [][ \A provider \in LoadProviders, block_type \in BlockTypes, type_name \in LoadTypeNames :
           (/\ Load(provider, block_type, type_name)
            /\ \E s \in {provider, type_name} :
                  \/ s = <<>>
                  \/ s[1] = "-"
                  \/ \E i \in 1..Len(s) :
                        ~(is_ascii_alphanumeric(s[i]) \/ s[i] = "_" \/ s[i] = "-"))
           => (/\ loadCall'.ok /\ loadCall'.value = None
               /\ loadCall'.fs_reads = 0
               /\ loaderCache' = loaderCache) ]_vars

C15_Witness ==
    /\ LoadCalled
    /\ loadCall.type_name = <<"-", "a">>
    /\ loadCall.provider = AwsName
    /\ loadCall.ok /\ loadCall.value = None /\ loadCall.fs_reads = 0
    /\ loaderCache # <<>>

\* C16: once a load of a key has returned Ok (Some or None), the entry
\* stored for the key never changes, and every later load of the key returns
\* that entry without any file access, whatever the file has become.
C16_Memoised ==
    [][ /\ \A k \in DOMAIN loaderCache :
              k \in DOMAIN loaderCache' /\ loaderCache'[k] = loaderCache[k]
        /\ \A provider \in LoadProviders, block_type \in BlockTypes, type_name \in LoadTypeNames :
              (/\ Load(provider, block_type, type_name)
               /\ cache_key(provider, block_type, type_name) \in DOMAIN loaderCache)
              => (/\ loadCall'.ok
                  /\ loadCall'.value = loaderCache[cache_key(provider, block_type, type_name)]
                  /\ loadCall'.fs_reads = 0)
        /\ \A provider \in LoadProviders, block_type \in BlockTypes, type_name \in LoadTypeNames :
              (/\ Load(provider, block_type, type_name)
               /\ is_valid_path_component(provider) /\ is_valid_path_component(type_name)
               /\ loadCall'.ok)
              => (/\ cache_key(provider, block_type, type_name) \in DOMAIN loaderCache'
                  /\ loaderCache'[cache_key(provider, block_type, type_name)] = loadCall'.value)
      ]_vars

C16_Witness ==
    /\ LoadCalled /\ loadCall.hit /\ loadCall.fs_reads = 0
    /\ loadCall.value = None
    /\ mappingFiles[mapping_file_path(loadCall.provider, loadCall.block_type,
                                      loadCall.type_name)] = "m2"

(***************************************************************************)
(* Conditional resolution (mapping/schema.rs) and the permission matcher   *)
(* (mapping/matcher.rs).                                                   *)
(***************************************************************************)
MaxGroupBlocks == 1

SeqRange(seq) == { seq[i] : i \in 1..Len(seq) }

\* Variant: every path counts as present.
path_present_any(present_paths, path) == TRUE

\* present_paths.contains(&path)
path_present(present_paths, path) == path \in present_paths

RECURSIVE resolve_recursive(_, _, _)
\* ConditionalActions::resolve_recursive.  The Vec it returns is in HashMap
\* iteration order and is only ever inserted into a HashSet by its caller,
\* so the result is given as the set of its elements.
resolve_recursive(self, current_path, present_paths) ==
    IF self.kind = "None" THEN {}
    ELSE IF self.kind = "Actions"
    THEN IF path_present(present_paths, current_path) THEN SeqRange(self.actions) ELSE {}
    ELSE UNION { LET value == self.map[key]
                     new_path == Append(current_path, key)
                 IN IF path_present(present_paths, new_path)
                    THEN IF value.kind = "Actions" THEN SeqRange(value.actions)
                         ELSE IF value.kind = "Nested"
                              THEN resolve_recursive(value, new_path, present_paths)
                         ELSE {}
                    ELSE {}
               : key \in DOMAIN self.map }

\* ConditionalActions::resolve
resolve(self, present_paths) == resolve_recursive(self, <<>>, present_paths)

RECURSIVE first_segment(_)
\* type_name.split('_').next()
first_segment(s) ==
    IF s = <<>> \/ s[1] = "_" THEN <<>> ELSE <<s[1]>> \o first_segment(Tail(s))

\* MappingLoader::extract_provider(..).unwrap_or("unknown")
extract_provider_or_unknown(type_name) ==
    IF first_segment(type_name) = <<>>
    THEN <<"u","n","k","n","o","w","n">>
    ELSE first_segment(type_name)

\* Variant: every block without mapping is listed.
note_missing_always(missing_mappings, seen_types, block) ==
    Append(missing_mappings, [block_type |-> block.block_type, type_name |-> block.type_name])

\* if !seen_types.contains(&type_key) { ...; missing_mappings.push(..) }
note_missing(missing_mappings, seen_types, block) ==
    IF <<block.block_type, block.type_name>> \in seen_types
    THEN missing_mappings
    ELSE Append(missing_mappings, [block_type |-> block.block_type, type_name |-> block.type_name])

\* Variant: conditional actions are added to the deny set.
add_conditional_to_deny(perms, conditional_actions) ==
    [perms EXCEPT !.deny = @ \cup conditional_actions]

\* for action in conditional_actions { group_allow_permissions.insert(action) }
add_conditional(perms, conditional_actions) ==
    [perms EXCEPT !.allow = @ \cup conditional_actions]

\* The body of the loop over group.blocks.  acc carries the loader cache,
\* the sets of the current group, missing_mappings, seen_types, whether a
\* load error has ended the call, and trace: per block visited, the group,
\* what load returned and what the conditional resolution gave.
match_block(acc, files, output_name, block) ==
    IF ~acc.ok THEN acc
    ELSE
    LET provider == extract_provider_or_unknown(block.type_name)
        r == load(acc.cache, files, provider, block.block_type, block.type_name)
        last == [provider |-> provider, block_type |-> block.block_type,
                 type_name |-> block.type_name, ok |-> r.ok, value |-> r.value,
                 fs_reads |-> r.fs_reads, hit |-> r.hit]
    IN IF ~r.ok THEN [acc EXCEPT !.ok = FALSE, !.cache = r.cache, !.last = last]
       ELSE IF r.value # None
       THEN LET mapping == parse_mapping(r.value[1])
                conditional_actions == resolve(mapping.conditional, block.present_attributes)
                direct == [allow |-> acc.perms.allow \cup SeqRange(mapping.allow),
                           deny |-> acc.perms.deny \cup SeqRange(mapping.deny)]
            IN [acc EXCEPT !.cache = r.cache, !.last = last,
                           !.perms = add_conditional(direct, conditional_actions),
                           !.trace = Append(@, [output_name |-> output_name, block |-> block,
                                                mapping |-> r.value,
                                                conditional_actions |-> conditional_actions])]
       ELSE [acc EXCEPT !.cache = r.cache, !.last = last,
                        !.missing_mappings = note_missing(@, acc.seen_types, block),
                        !.seen_types = @ \cup {<<block.block_type, block.type_name>>},
                        !.trace = Append(@, [output_name |-> output_name, block |-> block,
                                             mapping |-> None, conditional_actions |-> {}])]

RECURSIVE match_blocks(_, _, _, _)
match_blocks(acc, files, output_name, bs) ==
    IF bs = <<>> THEN acc
    ELSE match_blocks(match_block(acc, files, output_name, bs[1]), files, output_name, Tail(bs))

\* Variant: every provider group is entered into the result.
is_not_empty_always(perms) == TRUE

\* !group_allow_permissions.is_empty() || !group_deny_permissions.is_empty()
is_not_empty(perms) == perms.allow # {} \/ perms.deny # {}

RECURSIVE match_groups(_, _, _, _)
\* The loop over config.provider_groups, visited in the given order.
match_groups(acc, files, config, order) ==
    IF order = <<>> THEN acc
    ELSE LET output_name == order[1]
             fresh == [acc EXCEPT !.perms = [allow |-> {}, deny |-> {}]]
             done == match_blocks(fresh, files, output_name, config[output_name].blocks)
             kept == IF done.ok /\ is_not_empty(done.perms)
                     THEN [done EXCEPT !.groups = map_insert(@, output_name, done.perms)]
                     ELSE done
         IN match_groups(kept, files, config, Tail(order))

\* PermissionMatcher::resolve
matcher_resolve(cache, files, last, config, order) ==
    match_groups([cache |-> cache, perms |-> [allow |-> {}, deny |-> {}], groups |-> <<>>,
                  missing_mappings |-> <<>>, seen_types |-> {}, ok |-> TRUE,
                  last |-> last, trace |-> <<>>],
                 files, config, order)

\* Attribute paths a block may hold; the sets include one that holds a
\* nested path without its parent.
PresentSets == { {}, {<<"tags">>}, {<<"vpc", "vpc_id">>}, {<<"vpc">>, <<"vpc", "vpc_id">>} }
MatchBlocks == [block_type : BlockTypes, type_name : {AwsTypeA}, present_attributes : PresentSets]
MatchGroupNames == { <<"A">> \o DeployerSuffix, DefaultDeployer }
BlockLists == UNION { [1..n -> MatchBlocks] : n \in 1..MaxGroupBlocks }
\* TerraformConfig.provider_groups as the matcher receives it.
MatchConfigs ==
    UNION { [D -> { [blocks |-> bs] : bs \in BlockLists }] : D \in SUBSET MatchGroupNames }
\* The orders in which a HashMap over the given keys may be iterated.
Orders(keys) ==
    { o \in UNION { [1..n -> keys] : n \in {Cardinality(keys)} } :
        \A i, j \in 1..Len(o) : i # j => o[i] # o[j] }

InitMatcher ==
    /\ InitIdleCache /\ InitProcs /\ InitParse
    /\ mappingFiles \in [FilePaths -> FileContents]
    /\ loaderCache = <<>>
    /\ loadCall = [provider |-> <<>>, block_type |-> "none", type_name |-> <<>>,
                   ok |-> TRUE, value |-> <<>>, fs_reads |-> 0, hit |-> FALSE]
    /\ permResult = [called |-> FALSE]
    /\ outCall = [called |-> FALSE]
    /\ InitRun

\* One call of PermissionMatcher::resolve, run to its end.
Resolve(config, order) ==
    /\ ~permResult.called
    /\ LET acc == matcher_resolve(loaderCache, mappingFiles, loadCall, config, order)
       IN /\ loaderCache' = acc.cache
          /\ loadCall' = acc.last
          /\ permResult' = [called |-> TRUE, ok |-> acc.ok, config |-> config,
                            groups |-> IF acc.ok THEN acc.groups ELSE <<>>,
                            missing_mappings |-> IF acc.ok THEN acc.missing_mappings ELSE <<>>,
                            trace |-> acc.trace]
    /\ UNCHANGED mappingFiles

NextMatch ==
    \/ \E config \in MatchConfigs : \E order \in Orders(DOMAIN config) :
          Resolve(config, order) /\ UNCHANGED <<cacheVars, procVars, parseVars, outVars, runVars>>

SpecMatch == InitMatcher /\ [][NextMatch]_vars

(***************************************************************************)
(* Properties of conditional resolution and of the matcher.                *)
(***************************************************************************)
Matched == permResult.called /\ permResult.ok

RECURSIVE Leaves(_, _)
\* The Actions leaves of a conditional tree, each with its path from the root.
Leaves(tree, path) ==
    IF tree.kind = "Actions" THEN { [path |-> path, actions |-> tree.actions] }
    ELSE IF tree.kind = "Nested"
    THEN UNION { Leaves(tree.map[k], Append(path, k)) : k \in DOMAIN tree.map }
    ELSE {}

\* The leaf's path and every path on the way down to it are present.
AllPresent(path, present_paths) ==
    /\ path \in present_paths
    /\ \A n \in 1..Len(path) : SubSeq(path, 1, n) \in present_paths

ConditionalOf(tree, present_paths) ==
    UNION { SeqRange(l.actions) :
            l \in { x \in Leaves(tree, <<>>) : AllPresent(x.path, present_paths) } }

TraceOf(output_name) ==
    { permResult.trace[i] : i \in { j \in 1..Len(permResult.trace) :
                                       permResult.trace[j].output_name = output_name } }

\* C12: for every block the matcher found a mapping for, the conditional
\* resolution returned exactly the actions of the leaves whose path and all
\* intermediate paths are in the block's present set.
C12_ConditionalNeedsWholePath ==
    Matched =>
        \A i \in 1..Len(permResult.trace) :
            LET t == permResult.trace[i]
            IN t.mapping # None =>
                  t.conditional_actions =
                      ConditionalOf(parse_mapping(t.mapping[1]).conditional,
                                    t.block.present_attributes)

C12_Witness ==
    /\ Matched
    /\ \E i \in 1..Len(permResult.trace) :
          LET t == permResult.trace[i]
          IN /\ t.mapping = Some("m1")
             /\ t.block.present_attributes = {<<"vpc", "vpc_id">>}
             /\ t.conditional_actions = {}
             /\ "r53:Associate" \notin permResult.groups[t.output_name].allow

C14_MissingOncePerType ==
    Matched =>
        LET mm == permResult.missing_mappings
        IN /\ \A i, j \in 1..Len(mm) : i # j => mm[i] # mm[j]
           /\ \A i \in 1..Len(permResult.trace) :
                 LET t == permResult.trace[i]
                 IN t.mapping = None =>
                       Cardinality({ j \in 1..Len(mm) :
                                       /\ mm[j].block_type = t.block.block_type
                                       /\ mm[j].type_name = t.block.type_name }) = 1
           /\ \A j \in 1..Len(mm) :
                 \E i \in 1..Len(permResult.trace) :
                    /\ permResult.trace[i].mapping = None
                    /\ permResult.trace[i].block.block_type = mm[j].block_type
                    /\ permResult.trace[i].block.type_name = mm[j].type_name

C14_Witness ==
    /\ Matched
    /\ Len(permResult.missing_mappings) = 1
    /\ Cardinality({ i \in 1..Len(permResult.trace) : permResult.trace[i].mapping = None }) = 2
    /\ Cardinality(DOMAIN permResult.config) = 2

(***************************************************************************)
(* Output formatters (output/json.rs, output/hcl.rs).  A formatted policy  *)
(* is given by its Statement list; actions are character sequences.        *)
(***************************************************************************)
RECURSIVE sort(_)
\* Vec::sort on strings collected from a set: ascending byte order.
sort(set) ==
    IF set = {} THEN <<>>
    ELSE LET least == CHOOSE a \in set : \A b \in set : a = b \/ StrLess(a, b)
         IN <<least>> \o sort(set \ {least})

RECURSIVE before_colon(_)
\* perm.split(':').next(): the text before the first ':' (all of it if none).
before_colon(perm) ==
    IF perm = <<>> \/ perm[1] = ":" THEN <<>> ELSE <<perm[1]>> \o before_colon(Tail(perm))

Statement(effect, actions) == [Effect |-> effect, Action |-> actions, Resource |-> "*"]

\* JsonFormatter::create_single_statement / HclFormatter::format_statement_block
create_single_statement(permissions, effect) ==
    IF permissions = {} THEN <<>> ELSE << Statement(effect, sort(permissions)) >>

\* Variant: the statements follow in the order the services were met.
service_order_unsorted(services) ==
    LET sorted == sort(services)
    IN [i \in 1..Len(sorted) |-> sorted[Len(sorted) + 1 - i]]

\* service_names.sort()
service_order(services) == sort(services)

\* JsonFormatter::create_grouped_statements /
\* HclFormatter::create_grouped_statement_blocks
create_grouped_statements(permissions, effect) ==
    IF permissions = {} THEN <<>>
    ELSE LET service_names == service_order({ before_colon(perm) : perm \in permissions })
         IN [i \in 1..Len(service_names) |->
                Statement(effect,
                          sort({ perm \in permissions : before_colon(perm) = service_names[i] }))]

\* Variant: Allow statements first.
statements_allow_first(grouped, permissions) ==
    IF grouped
    THEN create_grouped_statements(permissions.allow, "Allow")
         \o create_grouped_statements(permissions.deny, "Deny")
    ELSE create_single_statement(permissions.allow, "Allow")
         \o create_single_statement(permissions.deny, "Deny")

\* JsonFormatter::format: the Statement list of the document.
json_format(grouped, permissions) ==
    IF grouped
    THEN create_grouped_statements(permissions.deny, "Deny")
         \o create_grouped_statements(permissions.allow, "Allow")
    ELSE create_single_statement(permissions.deny, "Deny")
         \o create_single_statement(permissions.allow, "Allow")

\* HclFormatter::format (format_grouped / format_single): the Statement list.
hcl_format(grouped, permissions) ==
    IF grouped
    THEN create_grouped_statements(permissions.deny, "Deny")
         \o create_grouped_statements(permissions.allow, "Allow")
    ELSE create_single_statement(permissions.deny, "Deny")
         \o create_single_statement(permissions.allow, "Allow")

\* OutputFormat and create_formatter
OutputFormats == {"Json", "JsonGrouped", "Hcl", "HclGrouped"}
is_grouped(format) == format \in {"JsonGrouped", "HclGrouped"}
extension(format) ==
    IF format \in {"Json", "JsonGrouped"} THEN <<"j","s","o","n">> ELSE <<"h","c","l">>
formatter_format(format, permissions) ==
    IF format \in {"Json", "JsonGrouped"}
    THEN json_format(is_grouped(format), permissions)
    ELSE hcl_format(is_grouped(format), permissions)

(***************************************************************************)
(* Output writer (output/mod.rs).  A path is the sequence of its           *)
(* components from the file-system root; names are character sequences.    *)
(***************************************************************************)
RECURSIVE trim_start_matches(_, _)
trim_start_matches(s, chars) ==
    IF s # <<>> /\ s[1] \in chars THEN trim_start_matches(Tail(s), chars) ELSE s

RECURSIVE trim_end_matches(_, _)
trim_end_matches(s, chars) ==
    IF s # <<>> /\ s[Len(s)] \in chars
    THEN trim_end_matches(SubSeq(s, 1, Len(s) - 1), chars) ELSE s

trim_matches(s, chars) == trim_end_matches(trim_start_matches(s, chars), chars)

\* Variant: one fixed file name, whatever the group is called.
sanitize_filename_fixed(name) == Some(<<"p", "o", "l", "i", "c", "y">>)

\* sanitize_filename: None, or Some(cleaned name).  Of the characters it
\* replaces, '/' and '\' occur in the names drawn here; of whitespace, ' '.
sanitize_filename(name) ==
    LET sanitized == [i \in 1..Len(name) |->
                         IF name[i] \in {"/", "\\"} THEN "_" ELSE name[i]]
        trimmed == trim_matches(trim_matches(sanitized, {" "}), {"."})
    IN IF trimmed = <<>> THEN None
       ELSE IF \E i \in 1..(Len(trimmed) - 1) : trimmed[i] = "." /\ trimmed[i + 1] = "."
            THEN None
       ELSE IF trimmed[1] = "." THEN None
       ELSE Some(trimmed)

RECURSIVE split_slash(_, _)
\* The components of a relative path text: split on '/', empty and "."
\* components dropped, ".." kept.
split_slash(s, cur) ==
    LET keep(c) == IF c = <<>> \/ c = <<".">> THEN <<>> ELSE <<c>>
    IN IF s = <<>> THEN keep(cur)
       ELSE IF s[1] = "/" THEN keep(cur) \o split_slash(Tail(s), <<>>)
       ELSE split_slash(Tail(s), Append(cur, s[1]))

\* Path::join: an absolute right-hand side replaces the left-hand side.
path_join(dir, filename) ==
    IF filename # <<>> /\ filename[1] = "/"
    THEN split_slash(filename, <<>>)
    ELSE dir \o split_slash(filename, <<>>)

\* Path::parent
path_parent(path) == SubSeq(path, 1, Len(path) - 1)

\* Path::starts_with: whole components
path_starts_with(path, base) ==
    Len(path) >= Len(base) /\ SubSeq(path, 1, Len(base)) = base

OutDir == << <<"w">>, <<"o">> >>
\* The directories that exist once create_dir_all(dir) has run.
ExistingDirs == { <<>>, << <<"w">> >>, OutDir, OutDir \o << <<"a">> >> }

RECURSIVE canonicalize_from(_, _)
\* Path::canonicalize: follow the components from cur; fails (ok = FALSE)
\* when a directory on the way does not exist.
canonicalize_from(cur, rest) ==
    IF cur \notin ExistingDirs THEN [ok |-> FALSE, path |-> cur]
    ELSE IF rest = <<>> THEN [ok |-> TRUE, path |-> cur]
    ELSE IF rest[1] = <<".", ".">>
         THEN canonicalize_from(IF cur = <<>> THEN cur ELSE path_parent(cur), Tail(rest))
    ELSE canonicalize_from(Append(cur, rest[1]), Tail(rest))

canonicalize(path) == canonicalize_from(<<>>, path)

\* Variant: the name is used as given and the path is not examined.
target_path_unchecked(dir, output_name, ext) ==
    [ok |-> TRUE, path |-> path_join(dir, output_name \o <<".">> \o ext)]

\* write_to_directory, from sanitize_filename to the starts_with test: the
\* path to write, or an InvalidFilename error.
target_path(dir, output_name, ext) ==
    LET safe_name == sanitize_filename(output_name)
    IN IF safe_name = None THEN [ok |-> FALSE, path |-> <<>>]
       ELSE LET file_path == path_join(dir, safe_name[1] \o <<".">> \o ext)
                canonical_dir == IF canonicalize(dir).ok THEN canonicalize(dir).path ELSE dir
                canonical_file == IF canonicalize(path_parent(file_path)).ok
                                  THEN canonicalize(path_parent(file_path)).path
                                  ELSE path_parent(file_path)
            IN IF ~path_starts_with(canonical_file, canonical_dir)
               THEN [ok |-> FALSE, path |-> <<>>]
               ELSE [ok |-> TRUE, path |-> file_path]

RECURSIVE write_groups(_, _, _, _, _)
\* The loop of write_to_directory over result.groups in the given order.
\* acc: files written (canonical parent and name), the names handled in
\* order, the documents written, and whether an error ended the call.
write_groups(acc, dir, groups, format, order) ==
    IF order = <<>> \/ ~acc.ok THEN acc
    ELSE LET output_name == order[1]
             target == target_path(dir, output_name, extension(format))
             where == canonicalize(path_parent(target.path))
         IN IF ~target.ok \/ ~where.ok THEN [acc EXCEPT !.ok = FALSE]
            ELSE write_groups(
                    [acc EXCEPT !.written = @ \cup {[parent |-> where.path,
                                                     name |-> target.path[Len(target.path)]]},
                                !.emitted = Append(@, output_name),
                                !.docs = map_insert(@, output_name,
                                                    formatter_format(format, groups[output_name]))],
                    dir, groups, format, Tail(order))

\* OutputWriter::write_to_directory
write_to_directory(dir, groups, format, order) ==
    write_groups([written |-> {}, emitted |-> <<>>, docs |-> <<>>, ok |-> TRUE],
                 dir, groups, format, order)

\* OutputWriter::write_to_stdout: one header and one document per group, in
\* sorted order of the output names.
write_to_stdout(groups, format) ==
    LET output_names == sort(DOMAIN groups)
    IN [written |-> {}, emitted |-> output_names,
        docs |-> [n \in DOMAIN groups |-> formatter_format(format, groups[n])],
        ok |-> TRUE]

Act(service, name) == service \o <<":">> \o name
\* GroupPermissions a group may carry.
PermChoices ==
    { [allow |-> {Act(<<"e">>, <<"a">>), Act(<<"s">>, <<"a">>), Act(<<"s">>, <<"b">>)},
       deny |-> {Act(<<"s">>, <<"a">>)}],
      [allow |-> {}, deny |-> {Act(<<"s">>, <<"b">>), Act(<<"e">>, <<"b">>)}],
      [allow |-> {Act(<<"e">>, <<"a">>)}, deny |-> {}] }
\* Output names: plain ones, and ones holding path syntax.
OutNames == { <<"A">>, <<"B">>, <<".", ".", "/", "x">>,
              <<"a", "/", ".", ".", "/", ".", ".", "/", "x">> }
\* PermissionResult.groups
ResultGroups == UNION { [D -> PermChoices] : D \in SUBSET OutNames }

InitOut ==
    /\ InitIdleCache /\ InitProcs /\ InitParse
    /\ mappingFiles = <<>>
    /\ loaderCache = <<>>
    /\ loadCall = [provider |-> <<>>, block_type |-> "none", type_name |-> <<>>,
                   ok |-> TRUE, value |-> <<>>, fs_reads |-> 0, hit |-> FALSE]
    /\ permResult = [called |-> FALSE]
    /\ outCall = [called |-> FALSE]
    /\ InitRun

\* cli.rs OutputFormat: the values --output-format takes; Plain is the
\* default.
CliOutputFormats == {"Plain"} \cup OutputFormats

\* create_formatter: the match has an arm for Json, JsonGrouped, Hcl and
\* HclGrouped and none for Plain.
create_formatter(format) == IF format \in OutputFormats THEN Some(format) ELSE None

\* plain.rs PlainFormatter::format and extension: the permissions of one
\* set, sorted, one per line.  output/mod.rs does not declare the module.
plain_format(permissions) == sort(permissions)
plain_extension == <<"t", "x", "t">>

\* What a call of write leaves when there is no formatter to call.
no_output == [written |-> {}, emitted |-> <<>>, docs |-> <<>>, ok |-> FALSE]

\* OutputWriter::write without output_dir.
WriteStdout(groups, format) ==
    /\ ~outCall.called
    /\ LET r == IF create_formatter(format) = None THEN no_output
                ELSE write_to_stdout(groups, format)
       IN outCall' = [called |-> TRUE, mode |-> "stdout", format |-> format, groups |-> groups,
                      ok |-> r.ok, emitted |-> r.emitted, docs |-> r.docs, written |-> r.written]

\* OutputWriter::write with output_dir set.
WriteDirectory(groups, format, order) ==
    /\ ~outCall.called
    /\ LET r == IF create_formatter(format) = None THEN no_output
                ELSE write_to_directory(OutDir, groups, format, order)
       IN outCall' = [called |-> TRUE, mode |-> "directory", format |-> format, groups |-> groups,
                      ok |-> r.ok, emitted |-> r.emitted, docs |-> r.docs, written |-> r.written]

NextOut ==
    \/ \E groups \in ResultGroups, format \in CliOutputFormats :
          WriteStdout(groups, format)
          /\ UNCHANGED <<cacheVars, procVars, parseVars, matchVars, runVars>>
    \/ \E groups \in ResultGroups, format \in CliOutputFormats :
          \E order \in Orders(DOMAIN groups) :
             WriteDirectory(groups, format, order)
             /\ UNCHANGED <<cacheVars, procVars, parseVars, matchVars, runVars>>

SpecOut == InitOut /\ [][NextOut]_vars

(***************************************************************************)
(* Properties of the formatters and of the output writer.                  *)
(***************************************************************************)
Written == outCall.called
StrLessEq(s, t) == s = t \/ StrLess(s, t)
ServiceOf(statement) == before_colon(statement.Action[1])
Ascending(seq) == \A i, j \in 1..Len(seq) : i < j => StrLess(seq[i], seq[j])

\* C17: in every document produced (JSON or HCL, flat or grouped) no Allow
\* statement stands before a Deny statement.
C17_DenyBeforeAllow ==
    Written =>
        \A n \in DOMAIN outCall.docs :
            LET doc == outCall.docs[n]
            IN \A i, j \in 1..Len(doc) :
                  (doc[i].Effect = "Allow" /\ doc[j].Effect = "Deny") => j < i

C17_Witness ==
    /\ Written
    /\ \E n \in DOMAIN outCall.docs :
          LET doc == outCall.docs[n]
          IN /\ Len(doc) = 3
             /\ doc[1].Effect = "Deny" /\ doc[2].Effect = "Allow" /\ doc[3].Effect = "Allow"
             /\ outCall.format = "HclGrouped"

\* C18 as stated: in a grouped document the service prefixes of the
\* statements of Statement[] are in ascending order from first to last, and
\* the actions of each statement are in ascending order.
C18_ServicesAscending ==
    (Written /\ is_grouped(outCall.format)) =>
        \A n \in DOMAIN outCall.docs :
            LET doc == outCall.docs[n]
            IN /\ \A i, j \in 1..Len(doc) :
                     i < j => StrLessEq(ServiceOf(doc[i]), ServiceOf(doc[j]))
               /\ \A i \in 1..Len(doc) : Ascending(doc[i].Action)

\* C18 as amended: in a grouped document the service prefixes are in
\* ascending order among the Deny statements and among the Allow statements,
\* and the actions of each statement are in ascending order.
C18_ServicesAscendingPerEffect ==
    (Written /\ is_grouped(outCall.format)) =>
        \A n \in DOMAIN outCall.docs :
            LET doc == outCall.docs[n]
            IN /\ \A i, j \in 1..Len(doc) :
                     (i < j /\ doc[i].Effect = doc[j].Effect)
                         => StrLess(ServiceOf(doc[i]), ServiceOf(doc[j]))
               /\ \A i \in 1..Len(doc) : Ascending(doc[i].Action)

C18_Witness ==
    /\ Written /\ is_grouped(outCall.format)
    /\ \E n \in DOMAIN outCall.docs :
          LET doc == outCall.docs[n]
          IN /\ Len(doc) = 3
             /\ ServiceOf(doc[1]) = <<"s">> /\ doc[1].Effect = "Deny"
             /\ ServiceOf(doc[2]) = <<"e">> /\ doc[2].Effect = "Allow"
             /\ ServiceOf(doc[3]) = <<"s">> /\ Len(doc[3].Action) = 2

\* C19: every file written in directory mode lies directly in the canonical
\* output directory, whatever the output names are.
C19_WrittenInsideOutputDir ==
    (Written /\ outCall.mode = "directory") =>
        \A f \in outCall.written : f.parent = canonicalize(OutDir).path

C19_Witness ==
    /\ Written /\ outCall.mode = "directory" /\ outCall.ok
    /\ <<".", ".", "/", "x">> \in DOMAIN outCall.groups
    /\ \E f \in outCall.written : f.name = <<"_", "x", ".", "j", "s", "o", "n">>

\* C20: in stdout mode and in directory mode the groups are emitted in
\* ascending order of their output names.
C20_GroupsEmittedAscending ==
    Written => Ascending(outCall.emitted)

(***************************************************************************)
(* A whole run in stdout mode (main.rs): resolve, then the missing-mapping *)
(* diagnostic on stderr, then the policy documents on stdout.              *)
(***************************************************************************)
\* MissingMapping.expected_path as PermissionMatcher::resolve formats it.
expected_path(block) ==
    << extract_provider_or_unknown(block.type_name), block.block_type, block.type_name >>

\* OutputWriter::write_missing_mappings: the lines written to stderr, one
\* per entry in the order of the Vec, between the warning and the closing
\* line; nothing when the Vec is empty.
write_missing_mappings(missing_mappings) ==
    LET fixed(text) == [text |-> text, block_type |-> "none", type_name |-> <<>>,
                        expected_path |-> <<>>]
    IN IF missing_mappings = <<>> THEN <<>>
       ELSE << fixed("warning") >>
            \o [i \in 1..Len(missing_mappings) |->
                   [text |-> "entry",
                    block_type |-> missing_mappings[i].block_type,
                    type_name |-> missing_mappings[i].type_name,
                    expected_path |-> expected_path(missing_mappings[i])]]
            \o << fixed("review") >>

\* The characters of the action strings the mapping files hold.
action_chars(action) ==
    CASE action = "ec2:Create" -> <<"e","c","2",":","C","r","e","a","t","e">>
      [] action = "ec2:Delete" -> <<"e","c","2",":","D","e","l","e","t","e">>
      [] action = "ec2:Tag" -> <<"e","c","2",":","T","a","g">>
      [] action = "r53:Associate" -> <<"r","5","3",":","A","s","s","o","c","i","a","t","e">>

\* GroupPermissions as the formatters read them.
permission_sets(perms) ==
    [allow |-> { action_chars(a) : a \in perms.allow },
     deny |-> { action_chars(a) : a \in perms.deny }]

\* What main emits after a successful resolve: stderr, then stdout.
run_output(result_groups, missing_mappings, format) ==
    [stderr |-> write_missing_mappings(missing_mappings),
     stdout |-> LET w == write_to_stdout([n \in DOMAIN result_groups |->
                                                permission_sets(result_groups[n])], format)
                IN [emitted |-> w.emitted, docs |-> w.docs]]

\* C21: a run on the same configuration and the same mapping files emits
\* the same diagnostic and the same policy documents whatever order the
\* provider groups are iterated in.
C21_OutputIndependentOfOrder ==
    Matched =>
        \A order \in Orders(DOMAIN permResult.config) :
            LET other == matcher_resolve(<<>>, mappingFiles, loadCall, permResult.config, order)
            IN other.ok =>
                  \A format \in OutputFormats :
                      run_output(other.groups, other.missing_mappings, format)
                          = run_output(permResult.groups, permResult.missing_mappings, format)

(***************************************************************************)
(* URL forms of one repository (mapping/cache.rs).                         *)
(***************************************************************************)
SameRepo(u, v) == parse_repo_path(u) = parse_repo_path(v)

\* C27 as stated: the accepted URLs that parse to the same <user>/<repo> use
\* one timestamp file, so right after a successful refresh through one form
\* the cache is fresh for every other form.
C27_UrlFormsShareTimestamp ==
    (call.outcome = "Ok" /\ call.wrote_timestamp) =>
        \A u \in Urls :
            SameRepo(u, call.url) =>
                /\ timestamp_file_path(u) = timestamp_file_path(call.url)
                /\ (now = call.at => ~needs_refresh(tsFile, now, u))

\* C27 as amended: the URL forms of one repository share the working tree,
\* but a call touches no timestamp file other than that of the URL text it
\* was given: the timestamp of every other form stays as it was.
C27_TimestampPerUrlText ==
    [][ \A u \in Urls :
           /\ SameRepo(u, call'.url) => get_repo_path(u) = call'.local_path \/ call'.outcome # "Ok"
           /\ u # call'.url =>
                 tsFile'[timestamp_file_path(u)] = tsFile[timestamp_file_path(u)] ]_vars

C27_Witness ==
    /\ call.outcome = "Ok" /\ call.wrote_timestamp /\ now = call.at
    /\ \E u \in Urls :
          /\ u # call.url /\ SameRepo(u, call.url)
          /\ is_cached(repoDir, u)
          /\ ~needs_refresh(tsFile, now, call.url)
          /\ needs_refresh(tsFile, now, u)

(***************************************************************************)
(* Groups without any action (mapping/matcher.rs, output/mod.rs).          *)
(***************************************************************************)
\* C29: every entry of PermissionResult.groups has a non-empty allow set or
\* a non-empty deny set, and every group whose blocks resolved to no action
\* is absent from the result; each header written to stdout is followed by a
\* document with at least one statement.
C29_NoEmptyGroup ==
    Matched =>
        /\ \A n \in DOMAIN permResult.groups :
              permResult.groups[n].allow # {} \/ permResult.groups[n].deny # {}
        /\ \A n \in DOMAIN permResult.config :
              (\A t \in TraceOf(n) : t.mapping = None) => n \notin DOMAIN permResult.groups
        /\ \A format \in OutputFormats :
              LET out == run_output(permResult.groups, permResult.missing_mappings, format).stdout
              IN \A i \in 1..Len(out.emitted) : out.docs[out.emitted[i]] # <<>>

C29_Witness ==
    /\ Matched
    /\ DOMAIN permResult.config = MatchGroupNames
    /\ DOMAIN permResult.groups = { DefaultDeployer }
    /\ \E t \in TraceOf(<<"A">> \o DeployerSuffix) : t.mapping = None

(***************************************************************************)
(* One file per group in directory mode (output/mod.rs).                   *)
(***************************************************************************)
\* An output name as the group naming of a run produces it: the PascalCase
\* form of a provider alias followed by "Deployer", or "DefaultDeployer";
\* for the aliases Terraform accepts these hold letters and digits only.
is_group_name(name) ==
    name # <<>> /\ \A i \in 1..Len(name) : is_ascii_alphanumeric(name[i])

C25_PlainSortedLines ==
    (Written /\ outCall.format = "Plain"
             /\ \A n \in DOMAIN outCall.groups : is_group_name(n)) =>
        /\ outCall.ok
        /\ DOMAIN outCall.docs = DOMAIN outCall.groups
        /\ \A n \in DOMAIN outCall.docs :
              outCall.docs[n] = plain_format(outCall.groups[n].allow \cup outCall.groups[n].deny)
        /\ outCall.mode = "directory" =>
              \A n \in DOMAIN outCall.groups :
                 \E f \in outCall.written : f.name = n \o <<".">> \o plain_extension

(***************************************************************************)
(* The sandbox (terraform/plan.rs, terraform/module_detector.rs,           *)
(* terraform/runner.rs).  A path is the sequence of its components from    *)
(* the root; the file system is the set of its entries.                    *)
(***************************************************************************)
Dir(path) == [path |-> path, kind |-> "dir"]
File(path) == [path |-> path, kind |-> "file"]
Symlink(path) == [path |-> path, kind |-> "symlink"]

exists(fs, path) == path = <<>> \/ \E e \in fs : e.path = path
is_dir(fs, path) == path = <<>> \/ Dir(path) \in fs
file_name(path) == path[Len(path)]

\* Path::strip_prefix, for a path that starts with the base.
strip_prefix(path, base) == SubSeq(path, Len(base) + 1, Len(path))

RECURSIVE fs_canonicalize(_, _, _)
\* Path::canonicalize of cur joined with rest: ".." steps to the parent, a
\* name steps into an entry that must exist.
fs_canonicalize(fs, cur, rest) ==
    IF rest = <<>> THEN [ok |-> TRUE, path |-> cur]
    ELSE IF rest[1] = ".."
         THEN fs_canonicalize(fs, IF cur = <<>> THEN cur ELSE path_parent(cur), Tail(rest))
    ELSE IF exists(fs, Append(cur, rest[1])) /\ is_dir(fs, cur)
         THEN fs_canonicalize(fs, Append(cur, rest[1]), Tail(rest))
    ELSE [ok |-> FALSE, path |-> cur]

\* File names with the extension tf, and Terraform's state files.
TfNames == { "main.tf", "a.tf" }
StateNames == { "terraform.tfstate", "terraform.tfstate.backup" }

\* TerraformRunner::has_terraform_files: a file with extension tf directly
\* in the directory.
has_terraform_files(fs, dir) ==
    \E e \in fs : /\ e.kind = "file" /\ Len(e.path) = Len(dir) + 1
                  /\ path_starts_with(e.path, dir) /\ file_name(e.path) \in TfNames

\* A module source as ModuleSourceType::parse classifies it.
LocalSource(path) == [kind |-> "Local", path |-> path]
RegistrySource == [kind |-> "Registry", path |-> <<>>]

\* ModuleSource::is_external_to
is_external_to(fs, source, working_dir) ==
    IF source.kind = "Local"
    THEN LET resolved == fs_canonicalize(fs, working_dir, source.path)
         IN IF resolved.ok THEN ~path_starts_with(resolved.path, working_dir) ELSE TRUE
    ELSE FALSE

\* ModuleSource::resolve_path
resolve_path(fs, source, working_dir) ==
    IF source.kind = "Local" /\ fs_canonicalize(fs, working_dir, source.path).ok
    THEN Some(fs_canonicalize(fs, working_dir, source.path).path)
    ELSE None

RECURSIVE resolve_external_modules(_, _, _, _)
\* resolve_external_modules: the external local modules in the order of the
\* sources, each path once.
resolve_external_modules(fs, working_dir, sources, external_paths) ==
    IF sources = <<>> THEN external_paths
    ELSE LET source == sources[1]
             resolved_path == resolve_path(fs, source, working_dir)
             add == /\ source.kind = "Local"
                    /\ is_external_to(fs, source, working_dir)
                    /\ resolved_path # None
                    /\ ~InSeq(external_paths, resolved_path[1])
         IN resolve_external_modules(fs, working_dir, Tail(sources),
                IF add THEN Append(external_paths, resolved_path[1]) ELSE external_paths)

RECURSIVE pop_until_prefix(_, _)
\* while !path.starts_with(&ancestor) { ancestor.pop() }
pop_until_prefix(ancestor, path) ==
    IF path_starts_with(path, ancestor) THEN ancestor
    ELSE pop_until_prefix(path_parent(ancestor), path)

RECURSIVE fold_ancestor(_, _)
fold_ancestor(ancestor, paths) ==
    IF paths = <<>> THEN ancestor
    ELSE fold_ancestor(pop_until_prefix(ancestor, paths[1]), Tail(paths))

\* find_common_ancestor
find_common_ancestor(paths) ==
    IF paths = <<>> THEN <<>>
    ELSE IF Len(paths) = 1 THEN paths[1]
    ELSE fold_ancestor(paths[1], Tail(paths))

\* Variant: a module is placed under its own directory name only.
dest_relative_name_only(module_path, common_ancestor) == << file_name(module_path) >>

\* module_path.strip_prefix(&common_ancestor)
dest_relative(module_path, common_ancestor) == strip_prefix(module_path, common_ancestor)

\* PlanExecutor::plan_copy_structure
plan_copy_structure(working_dir_abs, external_modules) ==
    IF external_modules = <<>>
    THEN [common_ancestor |-> working_dir_abs, working_dir_relative |-> <<>>,
          directories_to_copy |-> << [source |-> working_dir_abs, dest_relative |-> <<>>] >>]
    ELSE LET common_ancestor == find_common_ancestor(<<working_dir_abs>> \o external_modules)
             working_dir_relative == strip_prefix(working_dir_abs, common_ancestor)
         IN [common_ancestor |-> common_ancestor,
             working_dir_relative |-> working_dir_relative,
             directories_to_copy |->
                << [source |-> working_dir_abs, dest_relative |-> working_dir_relative] >>
                \o [i \in 1..Len(external_modules) |->
                       [source |-> external_modules[i],
                        dest_relative |-> dest_relative(external_modules[i], common_ancestor)]]]

\* CopyPlan::terraform_execution_dir
terraform_execution_dir(plan, temp_root) == temp_root \o plan.working_dir_relative

\* fs::create_dir_all
create_dir_all(fs, path) ==
    fs \cup { Dir(SubSeq(path, 1, n)) : n \in { k \in 1..Len(path) : ~exists(fs, SubSeq(path, 1, k)) } }

\* WalkDir::new(src): src itself and every entry below it; a symlink is
\* yielded as a symlink and not followed.  The walk is taken over the
\* entries present when it starts.
walk_dir(fs, src) == { e \in fs : path_starts_with(e.path, src) }

\* relative_path.starts_with(".terraform"): the first component
skip_entry(relative_path) == path_starts_with(relative_path, <<".terraform">>)

\* What copy_terraform_files does for one entry of the walk.
copy_entry(fs, src, dest, entry) ==
    LET relative_path == strip_prefix(entry.path, src)
        dest_path == dest \o relative_path
    IN IF skip_entry(relative_path) THEN fs
       ELSE IF entry.kind = "dir" THEN create_dir_all(fs, dest_path)
       ELSE IF entry.kind = "file"
            THEN create_dir_all(fs, path_parent(dest_path)) \cup { File(dest_path) }
       ELSE fs

RECURSIVE copy_entries(_, _, _, _)
copy_entries(fs, src, dest, entries) ==
    IF entries = {} THEN fs
    ELSE LET entry == CHOOSE e \in entries : \A o \in entries : Len(e.path) <= Len(o.path)
         IN copy_entries(copy_entry(fs, src, dest, entry), src, dest, entries \ {entry})

\* PlanExecutor::copy_terraform_files
copy_terraform_files(fs, src, dest) == copy_entries(fs, src, dest, walk_dir(fs, src))

RECURSIVE execute_copy_plan(_, _, _)
\* PlanExecutor::execute_copy_plan over plan.directories_to_copy
execute_copy_plan(fs, directories_to_copy, temp_root) ==
    IF directories_to_copy = <<>> THEN fs
    ELSE execute_copy_plan(
            copy_terraform_files(fs, directories_to_copy[1].source,
                                 temp_root \o directories_to_copy[1].dest_relative),
            Tail(directories_to_copy), temp_root)

\* PlanExecutor::clean_terraform_state
clean_terraform_state(fs, dir) ==
    { e \in fs :
        /\ ~path_starts_with(e.path, Append(dir, ".terraform"))
        /\ ~(Len(e.path) = Len(dir) + 1 /\ path_starts_with(e.path, dir)
             /\ file_name(e.path) \in StateNames) }

\* TerraformRunner::init: `terraform init -backend=false` run with the
\* execution directory as its current directory.  It writes .terraform
\* there; a failing run may or may not have got that far.
InitOutcomes == { "ok", "failed", "failed-late" }
runner_init(fs, working_dir, outcome) ==
    IF outcome = "failed" THEN fs
    ELSE IF outcome = "failed-late" THEN create_dir_all(fs, Append(working_dir, ".terraform"))
    ELSE create_dir_all(fs, working_dir \o <<".terraform", "modules">>)
         \cup { File(working_dir \o <<".terraform", "modules", "modules.json">>) }

\* TempDir::with_prefix("lppc-") in std::env::temp_dir(), and its removal
\* when the TempDir is dropped.
TmpDir == << "tmp" >>
temp_dir_create(fs) == << TmpDir \o << "lppc-1" >>, fs \cup { Dir(TmpDir \o << "lppc-1" >>) } >>
temp_dir_drop(fs, temp_root) == { e \in fs : ~path_starts_with(e.path, temp_root) }

(***************************************************************************)
(* The file systems a run starts from: an environment directory with a     *)
(* module beside it, an empty directory, and the system's temp directory.  *)
(***************************************************************************)
EnvDir == << "p", "envs", "dev" >>
ModuleDir == << "p", "modules", "m" >>
EmptyDir == << "e" >>

BaseEntries ==
    { Dir(<<"p">>), Dir(<<"p", "envs">>), Dir(EnvDir), Dir(<<"p", "modules">>), Dir(ModuleDir),
      Dir(EmptyDir), Dir(TmpDir),
      File(Append(EnvDir, "main.tf")), Symlink(Append(EnvDir, "link")),
      File(Append(ModuleDir, "main.tf")) }

OptionalEntries ==
    << { Dir(Append(EnvDir, ".terraform")), Dir(EnvDir \o <<".terraform", "modules">>),
         File(EnvDir \o <<".terraform", "modules", "modules.json">>) },
       { Dir(Append(EnvDir, "sub")), File(EnvDir \o <<"sub", "a.tf">>),
         Dir(EnvDir \o <<"sub", ".terraform">>), File(EnvDir \o <<"sub", ".terraform", "x">>) },
       { File(Append(EnvDir, "terraform.tfstate")) },
       { File(Append(TmpDir, "main.tf")) },
       { Dir(Append(ModuleDir, ".terraform")), File(ModuleDir \o <<".terraform", "z">>) } >>

FileSystems ==
    { BaseEntries \cup UNION { OptionalEntries[i] : i \in chosen } :
        chosen \in SUBSET (1..Len(OptionalEntries)) }

WorkingDirs == { EnvDir, EmptyDir, TmpDir }

SourceLists ==
    { <<>>,
      << LocalSource(<<"..", "..", "modules", "m">>) >>,
      << LocalSource(<<"sub">>) >>,
      << LocalSource(<<"..", "p", "modules", "m">>) >>,
      << LocalSource(<<"..", "..", "modules", "m">>), RegistrySource,
         LocalSource(<<"..", "..", "missing">>), LocalSource(<<"..", "..", "modules", "m">>) >> }

InitSandbox ==
    /\ InitIdleCache /\ InitProcs /\ InitParse
    /\ mappingFiles = <<>>
    /\ loaderCache = <<>>
    /\ loadCall = [provider |-> <<>>, block_type |-> "none", type_name |-> <<>>,
                   ok |-> TRUE, value |-> <<>>, fs_reads |-> 0, hit |-> FALSE]
    /\ permResult = [called |-> FALSE]
    /\ outCall = [called |-> FALSE]
    /\ fsys \in FileSystems
    /\ execCall = [pc |-> "none"]
    /\ mainCall = [called |-> FALSE]
    /\ walk = [pc |-> "none"]

\* PlanExecutor::execute up to the end of execute_copy_plan.  The module
\* sources are the ones detect_module_sources found in the configuration.
ExecStart(working_dir, sources) ==
    /\ execCall.pc = "none"
    /\ IF ~has_terraform_files(fsys, working_dir)
       THEN /\ execCall' = [pc |-> "done", result |-> "None", working_dir |-> working_dir,
                            before |-> fsys, external_modules |-> <<>>,
                            plan |-> plan_copy_structure(working_dir, <<>>),
                            temp_root |-> <<>>, execution_dir |-> <<>>]
            /\ fsys' = fsys
       ELSE LET external_modules == resolve_external_modules(fsys, working_dir, sources, <<>>)
                copy_plan == plan_copy_structure(working_dir, external_modules)
                temp_dir == temp_dir_create(fsys)
            IN /\ fsys' = execute_copy_plan(temp_dir[2], copy_plan.directories_to_copy, temp_dir[1])
               /\ execCall' = [pc |-> "copied", result |-> "none", working_dir |-> working_dir,
                               before |-> fsys, external_modules |-> external_modules,
                               plan |-> copy_plan, temp_root |-> temp_dir[1],
                               execution_dir |-> terraform_execution_dir(copy_plan, temp_dir[1])]

\* Self::clean_terraform_state(&execution_dir)
ExecClean ==
    /\ execCall.pc = "copied"
    /\ fsys' = clean_terraform_state(fsys, execCall.execution_dir)
    /\ execCall' = [execCall EXCEPT !.pc = "cleaned"]

\* self.runner.init(&execution_dir)?; on an error the TempDir is dropped.
ExecInit(outcome) ==
    /\ execCall.pc = "cleaned"
    /\ LET after == runner_init(fsys, execCall.execution_dir, outcome)
       IN IF outcome = "ok"
          THEN /\ fsys' = after
               /\ execCall' = [execCall EXCEPT !.pc = "inited"]
          ELSE /\ fsys' = temp_dir_drop(after, execCall.temp_root)
               /\ execCall' = [execCall EXCEPT !.pc = "done", !.result = "Err"]

\* HclParser::parse_directory(&execution_dir) only reads; the TempDir is
\* dropped when execute returns.
ExecParse(parsed) ==
    /\ execCall.pc = "inited"
    /\ fsys' = temp_dir_drop(fsys, execCall.temp_root)
    /\ execCall' = [execCall EXCEPT !.pc = "done",
                                    !.result = IF parsed THEN "Some" ELSE "Err"]

NextSandbox ==
    \/ \E working_dir \in WorkingDirs, sources \in SourceLists :
          ExecStart(working_dir, sources)
          /\ UNCHANGED <<cacheVars, procVars, parseVars, matchVars, outVars, mainCall, walk>>
    \/ ExecClean /\ UNCHANGED <<cacheVars, procVars, parseVars, matchVars, outVars, mainCall, walk>>
    \/ \E outcome \in InitOutcomes :
          ExecInit(outcome)
          /\ UNCHANGED <<cacheVars, procVars, parseVars, matchVars, outVars, mainCall, walk>>
    \/ \E parsed \in BOOLEAN :
          ExecParse(parsed)
          /\ UNCHANGED <<cacheVars, procVars, parseVars, matchVars, outVars, mainCall, walk>>

SpecSandbox == InitSandbox /\ [][NextSandbox]_vars

\* The entries at or below a directory.
entries_under(fs, dir) == { e \in fs : path_starts_with(e.path, dir) }

\* C23: when copying has finished, no entry of the sandbox has a .terraform
\* segment in its path, at any depth.
C23_NoTerraformSegmentCopied ==
    execCall.pc = "copied" =>
        \A e \in entries_under(fsys, execCall.temp_root) :
            ~InSeq(strip_prefix(e.path, execCall.temp_root), ".terraform")

\* C22: during and after execute, the entries under working_dir and under
\* every external module directory are the ones that were there before.
C22_WorkingDirNeverModified ==
    execCall.pc # "none" =>
        \A dir \in { execCall.working_dir } \cup { execCall.external_modules[i] : i \in 1..Len(execCall.external_modules) } :
            entries_under(fsys, dir) = entries_under(execCall.before, dir)

RECURSIVE common_prefix_len(_, _)
common_prefix_len(a, b) ==
    IF a # <<>> /\ b # <<>> /\ a[1] = b[1] THEN 1 + common_prefix_len(Tail(a), Tail(b)) ELSE 0

\* The relative path that leads from one directory to another: up to their
\* deepest common directory, then down.
relative_path(from, to) ==
    LET k == common_prefix_len(from, to)
    IN [i \in 1..(Len(from) - k) |-> ".."] \o SubSeq(to, k + 1, Len(to))

\* C26: with external modules, every directory is placed at its path
\* relative to the common ancestor, the path from the execution directory to
\* each module's copy is the path from working_dir to the module, and the
\* module's files are there when copying has finished.
C26_RelativePathsPreserved ==
    (execCall.pc = "copied" /\ execCall.external_modules # <<>>) =>
        /\ \A j \in 1..Len(execCall.plan.directories_to_copy) :
              LET dir_copy == execCall.plan.directories_to_copy[j]
              IN execCall.plan.common_ancestor \o dir_copy.dest_relative = dir_copy.source
        /\ \A i \in 1..Len(execCall.external_modules) :
              LET module_path == execCall.external_modules[i]
                  placed == execCall.temp_root \o execCall.plan.directories_to_copy[i + 1].dest_relative
              IN /\ relative_path(execCall.execution_dir, placed)
                       = relative_path(execCall.working_dir, module_path)
                 /\ \A name \in TfNames :
                       File(Append(module_path, name)) \in execCall.before
                          => File(Append(placed, name)) \in fsys

C26_Witness ==
    /\ execCall.pc = "copied"
    /\ execCall.working_dir = EnvDir
    /\ execCall.external_modules = << ModuleDir >>
    /\ execCall.plan.common_ancestor = << "p" >>
    /\ execCall.execution_dir = execCall.temp_root \o << "envs", "dev" >>
    /\ File(execCall.temp_root \o << "modules", "m", "main.tf" >>) \in fsys
    /\ relative_path(execCall.working_dir, ModuleDir) = << "..", "..", "modules", "m" >>

(***************************************************************************)
(* A run of the tool (main.rs).                                            *)
(***************************************************************************)
\* Variant: execute never returns None.
execute_result_never_none(fs, working_dir, rest) == rest

\* PlanExecutor::execute's result: None without a .tf file directly in
\* working_dir, else what the sandbox steps give (Some or Err).
execute_result(fs, working_dir, rest) ==
    IF ~has_terraform_files(fs, working_dir) THEN "None" ELSE rest

ExecuteRests == { "Some", "Err" }
\* What follows a parsed configuration: no provider group, a failing
\* resolve, a failing write, or the policies written.
Downstreams == { "no_groups", "resolve_err", "write_err", "written" }

\* main from PlanExecutor::new() on, given that Config::from_cli and
\* ensure_available have returned: the exit code and whether policy output
\* was written.
main_exit(config_ok, ensure_outcome, terraform_found, executed, downstream) ==
    IF ~config_ok THEN [exit_code |-> 1, policy_output |-> FALSE, stage |-> "config"]
    ELSE IF ensure_outcome # "Ok"
         THEN [exit_code |-> 1, policy_output |-> FALSE, stage |-> "mappings"]
    ELSE IF ~terraform_found
         THEN [exit_code |-> 1, policy_output |-> FALSE, stage |-> "terraform"]
    ELSE IF executed = "Err"
         THEN [exit_code |-> 1, policy_output |-> FALSE, stage |-> "execute"]
    ELSE IF executed = "None"
         THEN [exit_code |-> 0, policy_output |-> FALSE, stage |-> "no_files"]
    ELSE IF downstream = "no_groups"
         THEN [exit_code |-> 0, policy_output |-> FALSE, stage |-> "no_groups"]
    ELSE IF downstream = "resolve_err"
         THEN [exit_code |-> 1, policy_output |-> FALSE, stage |-> "resolve"]
    ELSE IF downstream = "write_err"
         THEN [exit_code |-> 1, policy_output |-> FALSE, stage |-> "write"]
    ELSE [exit_code |-> 0, policy_output |-> TRUE, stage |-> "written"]

MainDirs == { EnvDir, EmptyDir, << "missing" >> }
\* The default mappings URL, and git with or without network or binary.
MainUrls == { u \in Urls : u.scheme = "https://" }
MainEnvs == { e \in GitEnvs : e.reset /\ e.stderr = (CHOOSE x \in Stderrs : TRUE) }

\* One run of main.  Config::from_cli fails for a working directory that
\* does not exist; ensure_available runs before anything looks at the
\* working directory; the sandbox is gone when execute has returned.
Main(working_dir, url, force_refresh, env, terraform_found, rest, downstream) ==
    LET config_ok == exists(fsys, working_dir) /\ is_dir(fsys, working_dir)
        executed == execute_result(fsys, working_dir, rest)
    IN /\ IF config_ok THEN EnsureAvailable(url, force_refresh, env)
          ELSE UNCHANGED cacheVars
       /\ mainCall' =
             [called |-> TRUE, working_dir |-> working_dir, config_ok |-> config_ok,
              no_tf_files |-> ~has_terraform_files(fsys, working_dir),
              terraform_found |-> terraform_found,
              ensure_outcome |-> IF config_ok THEN call'.outcome ELSE "none",
              result |-> main_exit(config_ok, IF config_ok THEN call'.outcome ELSE "none",
                                   terraform_found, executed, downstream)]
       /\ UNCHANGED <<fsys, execCall, walk>>

InitMain ==
    /\ InitIdleCache /\ InitProcs /\ InitParse
    /\ mappingFiles = <<>>
    /\ loaderCache = <<>>
    /\ loadCall = [provider |-> <<>>, block_type |-> "none", type_name |-> <<>>,
                   ok |-> TRUE, value |-> <<>>, fs_reads |-> 0, hit |-> FALSE]
    /\ permResult = [called |-> FALSE]
    /\ outCall = [called |-> FALSE]
    /\ fsys = BaseEntries
    /\ execCall = [pc |-> "none"]
    /\ mainCall = [called |-> FALSE]
    /\ walk = [pc |-> "none"]

NextMain ==
    \/ \E working_dir \in MainDirs, url \in MainUrls, force_refresh \in BOOLEAN, env \in MainEnvs,
          terraform_found \in BOOLEAN, rest \in ExecuteRests, downstream \in Downstreams :
          Main(working_dir, url, force_refresh, env, terraform_found, rest, downstream)
          /\ UNCHANGED <<procVars, parseVars, matchVars, outVars>>
    \/ Tick /\ UNCHANGED <<procVars, parseVars, matchVars, outVars, runVars>>

SpecMain == InitMain /\ [][NextMain]_vars

MaxStack == 6

\* Variant: the child is looked up under its parent's key.
build_child_key_of_parent(parent_key, module_name) == parent_key

\* ModulesManifest::build_child_key
build_child_key(parent_key, module_name) ==
    IF parent_key = <<>> THEN module_name ELSE parent_key \o <<".">> \o module_name

\* ModulesManifest::find_module_dir: the dir of the first entry with the
\* key, if it can be canonicalized (it exists).
find_module_dir(manifest, present, module_key) ==
    LET hits == { i \in 1..Len(manifest) : manifest[i].key = module_key }
    IN IF hits = {} THEN None
       ELSE LET entry == manifest[CHOOSE i \in hits : \A j \in hits : i <= j]
            IN IF entry.dir \in present THEN Some(entry.dir) ELSE None

\* Module names in module blocks: terraform init, which runs before the
\* parser, accepts only identifiers, so a name is never empty.
CallNames == { <<"a">>, <<"b">> }
CallLists == { <<>>, << <<"a">> >>, << <<"b">> >>, << <<"a">>, <<"b">> >> }
ModuleDirs == { "root", "m1", "m2" }

\* Manifests: none; the root alone; a directory that calls itself (a chain
\* a, a.a, a.a.a onto one directory); two directories that call each other;
\* a module whose directory is the root directory; an entry whose directory
\* does not exist.
WalkManifests ==
    { None,
      Some(<< [key |-> <<>>, dir |-> "root"] >>),
      Some(<< [key |-> <<>>, dir |-> "root"], [key |-> <<"a">>, dir |-> "m1"],
              [key |-> <<"a", ".", "a">>, dir |-> "m1"],
              [key |-> <<"a", ".", "a", ".", "a">>, dir |-> "m1"],
              [key |-> <<"b">>, dir |-> "m2"] >>),
      Some(<< [key |-> <<>>, dir |-> "root"], [key |-> <<"a">>, dir |-> "m1"],
              [key |-> <<"a", ".", "b">>, dir |-> "m2"],
              [key |-> <<"a", ".", "b", ".", "a">>, dir |-> "m1"],
              [key |-> <<"b">>, dir |-> "gone"] >>),
      Some(<< [key |-> <<>>, dir |-> "root"], [key |-> <<"a">>, dir |-> "root"],
              [key |-> <<"a", ".", "a">>, dir |-> "root"],
              [key |-> <<"a">>, dir |-> "m2"] >>) }

InitRecurse ==
    /\ InitIdleCache /\ InitProcs /\ InitParse
    /\ mappingFiles = <<>>
    /\ loaderCache = <<>>
    /\ loadCall = [provider |-> <<>>, block_type |-> "none", type_name |-> <<>>,
                   ok |-> TRUE, value |-> <<>>, fs_reads |-> 0, hit |-> FALSE]
    /\ permResult = [called |-> FALSE]
    /\ outCall = [called |-> FALSE]
    /\ fsys = {}
    /\ execCall = [pc |-> "none"]
    /\ mainCall = [called |-> FALSE]
    /\ \E manifest \in WalkManifests, module_calls \in [ModuleDirs -> CallLists] :
          walk = [pc |-> "loaded", manifest |-> manifest, module_calls |-> module_calls,
                  stack |-> <<>>, visits |-> <<>>]

\* HclParser::parse_directory: the call for the root module, key "".
ParseDirectory ==
    /\ walk.pc = "loaded"
    /\ walk' = [walk EXCEPT !.pc = "running",
                            !.stack = << [dir |-> "root", module_key |-> <<>>, next |-> 1] >>,
                            !.visits = << [dir |-> "root", module_key |-> <<>>] >>]

\* The frame on top of the stack and the module call its loop is at.
top_frame == walk.stack[Len(walk.stack)]
calls_of(frame) == IF walk.manifest = None THEN <<>> ELSE walk.module_calls[frame.dir]
child_key_at(frame) == build_child_key(frame.module_key, calls_of(frame)[frame.next])
advance(stack) == [stack EXCEPT ![Len(stack)].next = @ + 1]

\* The loop over module_calls finds the child in the manifest: the
\* recursive call.
Descend ==
    /\ walk.pc = "running"
    /\ top_frame.next <= Len(calls_of(top_frame))
    /\ Len(walk.stack) < MaxStack
    /\ LET module_dir == find_module_dir(walk.manifest[1], ModuleDirs, child_key_at(top_frame))
       IN /\ module_dir # None
          /\ walk' = [walk EXCEPT
                !.stack = Append(advance(walk.stack),
                                 [dir |-> module_dir[1], module_key |-> child_key_at(top_frame),
                                  next |-> 1]),
                !.visits = Append(walk.visits,
                                  [dir |-> module_dir[1], module_key |-> child_key_at(top_frame)])]

\* The child is not in the manifest, or its directory does not exist: the
\* loop goes on.
Skip ==
    /\ walk.pc = "running"
    /\ top_frame.next <= Len(calls_of(top_frame))
    /\ find_module_dir(walk.manifest[1], ModuleDirs, child_key_at(top_frame)) = None
    /\ walk' = [walk EXCEPT !.stack = advance(walk.stack)]

\* The loop is over: the call returns to its caller, the root's to
\* parse_directory.
Return ==
    /\ walk.pc = "running"
    /\ top_frame.next > Len(calls_of(top_frame))
    /\ walk' = [walk EXCEPT !.stack = SubSeq(walk.stack, 1, Len(walk.stack) - 1),
                            !.pc = IF Len(walk.stack) = 1 THEN "done" ELSE "running"]

NextRecurse ==
    \/ ParseDirectory /\ UNCHANGED <<cacheVars, procVars, parseVars, matchVars, outVars, fsys, execCall, mainCall>>
    \/ Descend /\ UNCHANGED <<cacheVars, procVars, parseVars, matchVars, outVars, fsys, execCall, mainCall>>
    \/ Skip /\ UNCHANGED <<cacheVars, procVars, parseVars, matchVars, outVars, fsys, execCall, mainCall>>
    \/ Return /\ UNCHANGED <<cacheVars, procVars, parseVars, matchVars, outVars, fsys, execCall, mainCall>>

\* The parser is one thread that runs to its end.
SpecRecurse == InitRecurse /\ [][NextRecurse]_vars /\ WF_vars(NextRecurse)

manifest_keys == IF walk.manifest = None THEN {}
                 ELSE { walk.manifest[1][i].key : i \in 1..Len(walk.manifest[1]) }

\* Every active call below the root's has a key strictly longer than its
\* caller's and present in the manifest, so the stack is never deeper than
\* the manifest has entries (plus the root call).
StackBounded ==
    walk.pc = "running" =>
        /\ \A j \in 2..Len(walk.stack) :
              /\ Len(walk.stack[j].module_key) > Len(walk.stack[j - 1].module_key)
              /\ walk.stack[j].module_key \in manifest_keys
        /\ Len(walk.stack) <= 1 + Cardinality(manifest_keys)
        /\ Len(walk.stack) < MaxStack

====
